---- MODULE Spec2Model ----
(***************************************************************************)
(* Model of the document tools of mcp-server-datahub:                      *)
(*   - _merge_search_results, _hybrid_search_documents, search_documents,  *)
(*     _search_documents_impl   (retrieval fusion)                         *)
(*   - grep_documents           (bounded content search)                   *)
(* and of the gates on the tool listing:                                   *)
(*   - filter_tools_by_version, _get_server_version_info (version gate)    *)
(*   - filter_document_tools, _query_documents_exist_cached                *)
(*                              (content-existence gate)                   *)
(* of the listing chain that runs both gates (on_list_tools), alone and    *)
(* with two requests interleaved at the caches, and of the server's start  *)
(* and client scope:                                                       *)
(*   - create_app, main         (middleware registration)                  *)
(*   - with_client, get_client, set_client   (the current client)          *)
(* Python dicts are functions from key strings to values, so that optional *)
(* keys (searchType, searchResults, error, ...) are keys of the domain.    *)
(***************************************************************************)
EXTENDS Integers, Sequences, FiniteSets, TLC

VARIABLES
    mKeyword,      \* _merge_search_results: its keyword_results argument
    mSemantic,     \* _merge_search_results: its semantic_results argument
    mResult,       \* _merge_search_results: its return value (None before the call)
    kwRank,        \* backend: the keyword ranking of the catalog for the query
    semRank,       \* backend: the semantic ranking of the catalog for the query
    request,       \* search_documents: the arguments of the last call
    outcome,       \* search_documents: how the last call ended, and its result
    calls,         \* search_documents: the GraphQL calls the last call issued
    docs,          \* backend: the documents the content query returns
    grepRequest,   \* grep_documents: the arguments of the last call
    grepOutcome,   \* grep_documents: how the last call ended, and its result
    grepCalls,     \* grep_documents: the GraphQL calls the last call issued
    now,           \* the clock of the caches' timer, in seconds
    client,        \* _mcp_dh_client: the endpoint of the current client, or Unset
    backends,      \* per endpoint: the deployment the backend answers with
    TOOL_VERSION_REQUIREMENTS,  \* tool name -> VersionRequirement
    versionCache,  \* _version_info_cache: server url -> entry
    versionRequest,   \* filter_tools_by_version: the tools of the last call
    versionOutcome,   \* filter_tools_by_version: the result of the last call
    versionProbes,    \* filter_tools_by_version: the endpoints the last call probed
    environ,       \* os.environ
    documentsCache,   \* the TTLCache of _query_documents_exist_cached
    documentRequest,  \* filter_document_tools: the tools of the last call
    documentOutcome,  \* filter_document_tools: the result of the last call
    documentProbes,   \* filter_document_tools: the endpoints the last call probed
    app_initialized,  \* __main__._app_initialized
    middleware,    \* the middlewares added to mcp, in the order of add_middleware
    appOutcome,    \* create_app / main: how the last call ended
    tokens,        \* with_client: the tokens of the blocks that are open
    scopes,        \* with_client: per open block, the client before it and its argument
    clientOutcome, \* get_client / with_client: what the last operation gave
    pending,       \* per concurrent tools/list request: its position and its locals
    probed         \* per gate and cache key: the values its probes have returned

mergeVars == <<mKeyword, mSemantic, mResult>>
fuseVars == <<kwRank, semRank, request, outcome, calls>>
grepVars == <<docs, grepRequest, grepOutcome, grepCalls>>
serverVars == <<now, client, backends>>
versionVars ==
    <<TOOL_VERSION_REQUIREMENTS, versionCache, versionRequest, versionOutcome,
      versionProbes>>
documentVars ==
    <<environ, documentsCache, documentRequest, documentOutcome, documentProbes>>
gateVars == <<serverVars, versionVars, documentVars>>
createVars == <<app_initialized, middleware, appOutcome>>
scopeVars == <<tokens, scopes, clientOutcome>>
requestVars == <<pending, probed>>
appVars == <<createVars, scopeVars, requestVars>>
vars == <<mKeyword, mSemantic, mResult, kwRank, semRank, request, outcome, calls,
          docs, grepRequest, grepOutcome, grepCalls, gateVars, appVars>>

\* ---------------------------------------------------------------- bounds
NumRefs == 4
MaxHits == 3
MaxPage == 2
MaxOffset == 2
MaxTextLen == 3
MaxContext == 1
MaxMatches == 2
MaxStart == 2
MaxTicks == 2
MaxMiddleware == 6
MaxDepth == 2

\* ------------------------------------------------------ program constants
MAX_HYBRID_FETCH_RESULTS == 100
MaxNumResults == 50
MinCount == 1
VERSION_CHECK_CACHE_TTL_SECONDS == 60
DOCUMENT_CHECK_CACHE_TTL_SECONDS == 60

\* ---------------------------------------------------------- Python values
Min(a, b) == IF a <= b THEN a ELSE b
Max(a, b) == IF a >= b THEN a ELSE b

\* s[a:b] for a, b >= 0
Slice(s, a, b) ==
    IF a >= Min(b, Len(s)) THEN <<>> ELSE SubSeq(s, a + 1, Min(b, Len(s)))

None == [none |-> TRUE]
Get(d, k, default) == IF k \in DOMAIN d THEN d[k] ELSE default
Put(d, k, v) == (k :> v) @@ [x \in DOMAIN d \ {k} |-> d[x]]
Pop(d, k) == [x \in DOMAIN d \ {k} |-> d[x]]
Truthy(d) == d # None /\ DOMAIN d # {}

\* TLC cannot compare a string or a number with a record, so the tests that
\* Python makes on a value of any type (is None, truth value, isinstance)
\* read the value's printed form.
IsNone(v) == ToString(v) = ToString(None)
IsDict(v) == ~IsNone(v) /\ Head(ToString(v)) \in {"[", "("}
IsList(v) == Head(ToString(v)) = "<"
\* `if urn:` for an urn that is a string or None.
Falsy(v) == IsNone(v) \/ ToString(v) = ToString("")
EmptyDict == <<>>

\* A search hit as the backend returns it: the entity with its urn and an
\* opaque payload (score and fields), here the strategy whose response
\* carried it.
Hit(urn, strategy) == [entity |-> [urn |-> urn], payload |-> strategy]
\* result.get("entity", {}).get("urn")
UrnOf(result) == Get(Get(result, "entity", EmptyDict), "urn", None)
\* The keys of keyword_urns / semantic_urns: the urns of the hits that have one.
Urns(results) ==
    {UrnOf(results[i]) : i \in {j \in DOMAIN results : ~Falsy(UrnOf(results[j]))}}
\* urn in seen_urns, for an urn of any kind: seen_urns holds the urns of the
\* hits merged so far, none of them falsy.
Seen(urn, merged_results) ==
    ~Falsy(urn) /\ \E i \in DOMAIN merged_results : merged_results[i].entity.urn = urn
Hits(rank, strategy) == [i \in DOMAIN rank |-> Hit(rank[i], strategy)]

\* ------------------------------------------------- _merge_search_results
EmptyResponse == [searchResults |-> <<>>, total |-> 0, count |-> 0]

SetSearchType(result, t) == Put(result, "searchType", t)
TagAll(results, t) == [i \in DOMAIN results |-> SetSearchType(results[i], t)]

SearchTypeOf(urn, both_urns, own) == IF urn \in both_urns THEN "both" ELSE own

\* Position 1: top keyword result, if it has an urn
TopKeyword(keyword_search_results, both_urns) ==
    IF keyword_search_results # <<>> /\ ~Falsy(UrnOf(keyword_search_results[1]))
    THEN <<SetSearchType(keyword_search_results[1],
              SearchTypeOf(UrnOf(keyword_search_results[1]), both_urns, "keyword"))>>
    ELSE <<>>

\* Position 2: top semantic result, if it has an urn and was not already added
TopSemantic(semantic_search_results, both_urns, merged_results) ==
    IF semantic_search_results # <<>>
       /\ ~Falsy(UrnOf(semantic_search_results[1]))
       /\ ~Seen(UrnOf(semantic_search_results[1]), merged_results)
    THEN Append(merged_results,
             SetSearchType(semantic_search_results[1],
                 SearchTypeOf(UrnOf(semantic_search_results[1]), both_urns, "semantic")))
    ELSE merged_results

\* Mutant of Remaining: the results after the first, seen or not.
RemainingUnfiltered(results, merged_results) ==
    Slice(results, 1, Len(results))

\* results[1:] without the urns already seen (a hit without urn stays)
Remaining(results, merged_results) ==
    SelectSeq(Slice(results, 1, Len(results)),
              LAMBDA r : ~Seen(UrnOf(r), merged_results))

\* Mutant of TakeNext: the seen-check of the loop is dropped.
TakeNextUnchecked(remaining, i, both_urns, own, merged_results) ==
    IF i <= Len(remaining) /\ ~Falsy(UrnOf(remaining[i]))
    THEN Append(merged_results,
             SetSearchType(remaining[i],
                 SearchTypeOf(UrnOf(remaining[i]), both_urns, own)))
    ELSE merged_results

\* One half of a round of the interleaving loop: the result at index i of
\* `remaining`, if there is one, it has an urn and its urn was not seen.
TakeNext(remaining, i, both_urns, own, merged_results) ==
    IF i <= Len(remaining)
       /\ ~Falsy(UrnOf(remaining[i]))
       /\ ~Seen(UrnOf(remaining[i]), merged_results)
    THEN Append(merged_results,
             SetSearchType(remaining[i],
                 SearchTypeOf(UrnOf(remaining[i]), both_urns, own)))
    ELSE merged_results

\* The while loop: in round i, ki = Min(i, len) and si = Min(i, len). The
\* list built so far is read at the head of each round, so that the rounds
\* are evaluated in the loop's order, one after the other.
RECURSIVE Interleave(_, _, _, _, _)
Interleave(keyword_remaining, semantic_remaining, i, both_urns, merged_results) ==
    IF Len(merged_results) >= 0
       /\ ~(i <= Len(keyword_remaining) \/ i <= Len(semantic_remaining))
    THEN merged_results
    ELSE Interleave(keyword_remaining, semantic_remaining, i + 1, both_urns,
             TakeNext(semantic_remaining, i, both_urns, "semantic",
                 TakeNext(keyword_remaining, i, both_urns, "keyword", merged_results)))

\* Mutant of MergedResults: the top semantic result takes position 1.
MergedResultsSemanticFirst(keyword_search_results, semantic_search_results) ==
    LET both_urns == Urns(keyword_search_results) \cap Urns(semantic_search_results)
        top == TopSemantic(semantic_search_results, both_urns, <<>>)
        tops == IF keyword_search_results # <<>>
                   /\ ~Seen(UrnOf(keyword_search_results[1]), top)
                THEN top \o TopKeyword(keyword_search_results, both_urns)
                ELSE top
    IN  Interleave(Remaining(keyword_search_results, tops),
                   Remaining(semantic_search_results, tops), 1, both_urns, tops)

MergedResults(keyword_search_results, semantic_search_results) ==
    LET both_urns == Urns(keyword_search_results) \cap Urns(semantic_search_results)
        tops == TopSemantic(semantic_search_results, both_urns,
                    TopKeyword(keyword_search_results, both_urns))
    IN  Interleave(Remaining(keyword_search_results, tops),
                   Remaining(semantic_search_results, tops), 1, both_urns, tops)

MergedResponse(keyword_results, merged_results) ==
    LET base == [searchResults |-> merged_results,
                 total |-> Len(merged_results),
                 count |-> Len(merged_results)]
        withFacets == IF "facets" \in DOMAIN keyword_results
                      THEN Put(base, "facets", keyword_results["facets"]) ELSE base
    IN  IF "start" \in DOMAIN keyword_results
        THEN Put(withFacets, "start", keyword_results["start"]) ELSE withFacets

\* Semantic unavailable, failed or suspiciously empty: keyword results only
KeywordOnly(keyword_results) ==
    IF "searchResults" \in DOMAIN keyword_results
    THEN Put(keyword_results, "searchResults",
             TagAll(keyword_results["searchResults"], "keyword"))
    ELSE keyword_results

SemanticOnly(semantic_results) ==
    IF "searchResults" \in DOMAIN semantic_results
    THEN Put(semantic_results, "searchResults",
             TagAll(semantic_results["searchResults"], "semantic"))
    ELSE semantic_results

merge_search_results(keyword_results, semantic_results) ==
    IF ~Truthy(keyword_results) /\ ~Truthy(semantic_results) THEN EmptyResponse
    ELSE IF ~Truthy(semantic_results) THEN KeywordOnly(keyword_results)
    ELSE IF ~Truthy(keyword_results) THEN SemanticOnly(semantic_results)
    ELSE LET keyword_search_results == Get(keyword_results, "searchResults", <<>>)
             semantic_search_results == Get(semantic_results, "searchResults", <<>>)
         IN  IF semantic_search_results = <<>> /\ keyword_search_results # <<>>
             THEN KeywordOnly(keyword_results)
             ELSE MergedResponse(keyword_results,
                      MergedResults(keyword_search_results, semantic_search_results))

\* The two arguments after the call. The keyword-only and semantic-only
\* paths write searchType into the hits of the argument itself (and return
\* that object); the merge works on copies of the hits.
merge_arguments_after(keyword_results, semantic_results) ==
    LET suspicious == /\ Truthy(keyword_results) /\ Truthy(semantic_results)
                      /\ Get(semantic_results, "searchResults", <<>>) = <<>>
                      /\ Get(keyword_results, "searchResults", <<>>) # <<>>
    IN  [keyword_results |->
             IF Truthy(keyword_results) /\ (~Truthy(semantic_results) \/ suspicious)
             THEN KeywordOnly(keyword_results) ELSE keyword_results,
         semantic_results |->
             IF Truthy(semantic_results) /\ ~Truthy(keyword_results)
             THEN SemanticOnly(semantic_results) ELSE semantic_results]

\* --------------------------------------------------------------- backend
\* execute_graphql on documentSearch / documentSemanticSearch: the backend
\* answers from its ranking of the catalog for the query. The keyword search
\* takes count and start, the semantic search takes count only.
BackendResponse(strategy, rank, variables) ==
    LET start == Get(variables, "start", 0)
        results == Hits(Slice(rank, start, start + variables["count"]), strategy)
        common == [searchResults |-> results,
                   count |-> Len(results),
                   total |-> Len(rank),
                   facets |-> strategy,
                   __typename |-> "SearchResults"]
    IN  IF strategy = "semantic" THEN common ELSE Put(common, "start", start)

\* _clean_gql_response: in a dict the keys with value None and the banned
\* key are dropped and the other values cleaned; a list is cleaned item by
\* item; any other value is returned as it is.
RECURSIVE clean_gql_response(_)
clean_gql_response(response) ==
    IF IsDict(response)
    THEN [k \in {key \in DOMAIN response :
                    ~IsNone(response[key]) /\ key # "__typename"} |->
             clean_gql_response(response[k])]
    ELSE IF IsList(response)
    THEN [i \in DOMAIN response |-> clean_gql_response(response[i])]
    ELSE response

\* ------------------------------------------------------- the client
\* The context variable without a value (no endpoint has this name).
Unset == "<unset>"

\* get_datahub_client(): the current client; LookupError when none is set.
get_datahub_client(current) ==
    [raised |-> current = Unset, value |-> current]

\* ------------------------------------------------- _search_documents_impl
\* The variables of the GraphQL call.
SearchVariables(search_strategy, num_results, offset) ==
    LET capped == Min(num_results, MaxNumResults)
    IN  IF search_strategy = "semantic"
        THEN [operation_name |-> "documentSemanticSearch",
              count |-> Max(capped, MinCount)]
        ELSE [operation_name |-> "documentSearch",
              count |-> Max(capped, MinCount),
              start |-> offset]

\* Returns [raised, value, calls]: get_datahub_client raises when no client
\* is set, before anything is sent; execute_graphql raises when the backend
\* fails; num_results = 0 asks for the facets only.
search_documents_impl(current, search_strategy, num_results, offset, rank, fails) ==
    LET variables == SearchVariables(search_strategy, num_results, offset)
        response == BackendResponse(search_strategy, rank, variables)
        facetsOnly == Pop(Pop(response, "searchResults"), "count")
    IN  IF get_datahub_client(current).raised
        THEN [raised |-> TRUE, value |-> None, calls |-> <<>>]
        ELSE IF fails
        THEN [raised |-> TRUE, value |-> None, calls |-> <<variables>>]
        ELSE [raised |-> FALSE,
              value |-> clean_gql_response(
                  IF Min(num_results, MaxNumResults) = 0 THEN facetsOnly ELSE response),
              calls |-> <<variables>>]

\* ----------------------------------------------- _hybrid_search_documents
FetchCount(num_results, offset) == Min(offset + num_results, MAX_HYBRID_FETCH_RESULTS)
HitFetchLimit(num_results, offset) == (offset + num_results) > MAX_HYBRID_FETCH_RESULTS

\* Mutant of run_keyword_search: the keyword search's failure is caught too.
run_keyword_search_caught(current, num_results, offset, rank, fails) ==
    LET r == search_documents_impl(current, "keyword", FetchCount(num_results, offset), 0,
                                   rank, fails)
    IN  IF r.raised THEN [raised |-> FALSE, value |-> None, calls |-> r.calls] ELSE r

\* Mutant of run_keyword_search: the keyword search starts at the page's offset.
run_keyword_search_at_offset(current, num_results, offset, rank, fails) ==
    search_documents_impl(current, "keyword", FetchCount(num_results, offset), offset,
                          rank, fails)

run_keyword_search(current, num_results, offset, rank, fails) ==
    search_documents_impl(current, "keyword", FetchCount(num_results, offset), 0, rank, fails)

\* Mutant of run_semantic_search: the semantic search's failure is not caught.
run_semantic_search_uncaught(current, num_results, offset, rank, fails) ==
    search_documents_impl(current, "semantic", FetchCount(num_results, offset), 0, rank, fails)

\* The semantic search's failure is caught: None is returned.
run_semantic_search(current, num_results, offset, rank, fails) ==
    LET r == search_documents_impl(current, "semantic", FetchCount(num_results, offset), 0,
                                   rank, fails)
    IN  IF r.raised THEN [raised |-> FALSE, value |-> None, calls |-> r.calls] ELSE r

\* Mutant of Paginate: the total is left as the merge reported it.
PaginateKeepTotal(merged, num_results, offset) ==
    LET all_results == Get(merged, "searchResults", <<>>)
        paginated_results == Slice(all_results, offset, offset + num_results)
    IN  Put(Put(Put(merged, "searchResults", paginated_results),
                "start", offset), "count", Len(paginated_results))

\* Pagination of the merged results and the final response.
Paginate(merged, num_results, offset) ==
    LET all_results == Get(merged, "searchResults", <<>>)
        paginated_results == Slice(all_results, offset, offset + num_results)
        page == Put(Put(Put(Put(merged, "searchResults", paginated_results),
                       "start", offset), "count", Len(paginated_results)),
                   "total", Len(all_results))
    IN  IF HitFetchLimit(num_results, offset)
        THEN Put(Put(page, "_hybridSearchLimitReached", TRUE),
                 "_hybridSearchMaxResults", MAX_HYBRID_FETCH_RESULTS)
        ELSE page

\* Mutant of hybrid_search_documents: each search is asked for the page itself
\* (start = offset, count = num_results) and the merged hits are the page.
hybrid_search_documents_paged(current, num_results, offset, kw, sem, kwFails, semFails) ==
    LET keyword_results == search_documents_impl(current, "keyword", num_results, offset, kw, kwFails)
        semantic == search_documents_impl(current, "semantic", num_results, offset, sem, semFails)
        semantic_results == IF semantic.raised
                            THEN [raised |-> FALSE, value |-> None, calls |-> semantic.calls]
                            ELSE semantic
        merged == merge_search_results(keyword_results.value, semantic_results.value)
    IN  IF keyword_results.raised
        THEN keyword_results
        ELSE [raised |-> FALSE,
              value |-> clean_gql_response(Put(merged, "start", offset)),
              calls |-> keyword_results.calls \o semantic_results.calls]

hybrid_search_documents(current, num_results, offset, kw, sem, kwFails, semFails) ==
    LET keyword_results == run_keyword_search(current, num_results, offset, kw, kwFails)
        semantic_results == run_semantic_search(current, num_results, offset, sem, semFails)
        merged == merge_search_results(keyword_results.value, semantic_results.value)
    IN  IF keyword_results.raised
        THEN keyword_results
        ELSE IF semantic_results.raised
        THEN [raised |-> TRUE, value |-> None,
              calls |-> keyword_results.calls \o semantic_results.calls]
        ELSE [raised |-> FALSE,
              value |-> clean_gql_response(Paginate(merged, num_results, offset)),
              calls |-> keyword_results.calls \o semantic_results.calls]

\* -------------------------------------------------------- search_documents
\* Mutant of search_documents: the keyword-only search goes through the merge,
\* which tags its hits.
search_documents_merged(current, semantic_query, num_results, offset, kw, sem, kwFails, semFails) ==
    LET r == search_documents_impl(current, "keyword", num_results, offset, kw, kwFails)
    IN  IF semantic_query
        THEN hybrid_search_documents(current, num_results, offset, kw, sem, kwFails, semFails)
        ELSE IF r.raised THEN r
        ELSE [raised |-> FALSE,
              value |-> merge_search_results(r.value, None),
              calls |-> r.calls]

\* semantic_query is TRUE when a (non-empty) semantic query is supplied.
search_documents(current, semantic_query, num_results, offset, kw, sem, kwFails, semFails) ==
    IF semantic_query
    THEN hybrid_search_documents(current, num_results, offset, kw, sem, kwFails, semFails)
    ELSE search_documents_impl(current, "keyword", num_results, offset, kw, kwFails)

\* ---------------------------------------------------------- grep_documents
\* A text is a sequence of characters. A pattern is either a literal, which
\* RE2 compiles and matches as itself, or a string RE2 rejects.
Literal(chars) == [valid |-> TRUE, literal |-> chars]
InvalidPattern == [valid |-> FALSE, source |-> "[invalid"]

GrepZero == [results |-> <<>>, total_matches |-> 0, documents_with_matches |-> 0]

\* The except branch of re2.compile: f"Invalid regex pattern: {e}", as the
\* literal prefix and the engine's message.
InvalidRegexResult(pattern) ==
    [error |-> <<"Invalid regex pattern: ", pattern.source>>,
     results |-> <<>>, total_matches |-> 0, documents_with_matches |-> 0]

\* execute_graphql on documentContent: one entity per urn asked, in order,
\* null (None) for an urn the catalog does not hold.
ContentResponse(store, urns) ==
    [entities |-> [i \in DOMAIN urns |->
                      IF urns[i] \in DOMAIN store THEN store[urns[i]] ELSE None]]

\* regex.finditer(text): the starts (0-based) of the non-overlapping matches
\* of the literal, leftmost first.
MatchesAt(text, lit, pos) ==
    /\ pos + Len(lit) <= Len(text)
    /\ SubSeq(text, pos + 1, pos + Len(lit)) = lit
RECURSIVE FindIter(_, _, _)
FindIter(text, lit, pos) ==
    IF pos + Len(lit) > Len(text) THEN <<>>
    ELSE IF MatchesAt(text, lit, pos)
         THEN <<pos>> \o FindIter(text, lit, pos + Len(lit))
         ELSE FindIter(text, lit, pos + 1)

\* Mutant of Excerpt: the position is the one within the sliced text.
ExcerptRelative(text, match_start, match_end, context_chars, start_offset) ==
    LET start_pos == Max(0, match_start - context_chars)
        end_pos == Min(Len(text), match_end + context_chars)
        body == Slice(text, start_pos, end_pos)
        left == IF start_pos > 0 THEN <<"...">> \o body ELSE body
    IN  [excerpt |-> IF end_pos < Len(text) THEN left \o <<"...">> ELSE left,
         position |-> match_start]

\* The excerpt of one match of the (offset) text, with its absolute position.
Excerpt(text, match_start, match_end, context_chars, start_offset) ==
    LET start_pos == Max(0, match_start - context_chars)
        end_pos == Min(Len(text), match_end + context_chars)
        body == Slice(text, start_pos, end_pos)
        left == IF start_pos > 0 THEN <<"...">> \o body ELSE body
    IN  [excerpt |-> IF end_pos < Len(text) THEN left \o <<"...">> ELSE left,
         position |-> match_start + start_offset]

\* What the loop body yields when it continues without a result.
Skip == [skip |-> TRUE]

\* Mutant of ScanDocument: the count stops with the excerpts.
ScanDocumentCountKept(entity, lit, context_chars, max_matches_per_doc, start_offset) ==
    LET full == entity.text
        text == IF start_offset > 0 THEN Slice(full, start_offset, Len(full)) ELSE full
        starts == FindIter(text, lit, 0)
        kept == Min(Max(max_matches_per_doc, 0), Len(starts))
        excerpts == [j \in 1 .. kept |->
                        Excerpt(text, starts[j], starts[j] + Len(lit),
                                context_chars, start_offset)]
        entry == [urn |-> entity.urn, title |-> entity.title,
                  matches |-> excerpts, total_matches |-> kept]
    IN  IF full = <<>> THEN Skip
        ELSE IF start_offset > 0 /\ start_offset >= Len(full) THEN Skip
        ELSE IF Len(starts) = 0 THEN Skip
        ELSE IF start_offset > 0 THEN Put(entry, "content_length", Len(full))
        ELSE entry

\* Mutant of ScanDocument: content_length is the length of the sliced text.
ScanDocumentSlicedLength(entity, lit, context_chars, max_matches_per_doc, start_offset) ==
    LET full == entity.text
        text == IF start_offset > 0 THEN Slice(full, start_offset, Len(full)) ELSE full
        starts == FindIter(text, lit, 0)
        kept == Min(Max(max_matches_per_doc, 0), Len(starts))
        excerpts == [j \in 1 .. kept |->
                        Excerpt(text, starts[j], starts[j] + Len(lit),
                                context_chars, start_offset)]
        entry == [urn |-> entity.urn, title |-> entity.title,
                  matches |-> excerpts, total_matches |-> Len(starts)]
    IN  IF full = <<>> THEN Skip
        ELSE IF start_offset > 0 /\ start_offset >= Len(full) THEN Skip
        ELSE IF Len(starts) = 0 THEN Skip
        ELSE IF start_offset > 0 THEN Put(entry, "content_length", Len(text))
        ELSE entry

\* The body of the loop for one entity with text: Skip when the loop
\* continues without a result, else the result entry.
ScanDocument(entity, lit, context_chars, max_matches_per_doc, start_offset) ==
    LET full == entity.text
        text == IF start_offset > 0 THEN Slice(full, start_offset, Len(full)) ELSE full
        starts == FindIter(text, lit, 0)
        kept == Min(Max(max_matches_per_doc, 0), Len(starts))
        excerpts == [j \in 1 .. kept |->
                        Excerpt(text, starts[j], starts[j] + Len(lit),
                                context_chars, start_offset)]
        entry == [urn |-> entity.urn, title |-> entity.title,
                  matches |-> excerpts, total_matches |-> Len(starts)]
    IN  IF full = <<>> THEN Skip
        ELSE IF start_offset > 0 /\ start_offset >= Len(full) THEN Skip
        ELSE IF Len(starts) = 0 THEN Skip
        ELSE IF start_offset > 0 THEN Put(entry, "content_length", Len(full))
        ELSE entry

\* Mutant of GrepLoop: a document without a result ends the loop.
RECURSIVE GrepLoopBreak(_, _, _, _, _, _, _)
GrepLoopBreak(entities, i, lit, context_chars, max_matches_per_doc, start_offset, acc) ==
    IF i > Len(entities) THEN acc
    ELSE LET entry == IF entities[i] = None THEN Skip
                      ELSE ScanDocument(entities[i], lit, context_chars,
                                        max_matches_per_doc, start_offset)
         IN  IF entry = Skip THEN acc
             ELSE GrepLoopBreak(entities, i + 1, lit, context_chars,
                      max_matches_per_doc, start_offset,
                      [results |-> Append(acc.results, entry),
                       total_matches |-> acc.total_matches + entry["total_matches"],
                       documents_with_matches |-> acc.documents_with_matches + 1])

\* Mutant of GrepLoop: total_matches adds up the excerpts kept.
RECURSIVE GrepLoopCountExcerpts(_, _, _, _, _, _, _)
GrepLoopCountExcerpts(entities, i, lit, context_chars, max_matches_per_doc, start_offset, acc) ==
    IF i > Len(entities) THEN acc
    ELSE LET entry == IF entities[i] = None THEN Skip
                      ELSE ScanDocument(entities[i], lit, context_chars,
                                        max_matches_per_doc, start_offset)
         IN  GrepLoopCountExcerpts(entities, i + 1, lit, context_chars,
                      max_matches_per_doc, start_offset,
                      IF entry = Skip THEN acc
                      ELSE [results |-> Append(acc.results, entry),
                            total_matches |-> acc.total_matches + Len(entry["matches"]),
                            documents_with_matches |-> acc.documents_with_matches + 1])

\* The for loop over the entities, from entity i on.
RECURSIVE GrepLoop(_, _, _, _, _, _, _)
GrepLoop(entities, i, lit, context_chars, max_matches_per_doc, start_offset, acc) ==
    IF i > Len(entities) THEN acc
    ELSE LET entry == IF entities[i] = None THEN Skip
                      ELSE ScanDocument(entities[i], lit, context_chars,
                                        max_matches_per_doc, start_offset)
         IN  GrepLoop(entities, i + 1, lit, context_chars, max_matches_per_doc,
                      start_offset,
                      IF entry = Skip THEN acc
                      ELSE [results |-> Append(acc.results, entry),
                            total_matches |-> acc.total_matches + entry["total_matches"],
                            documents_with_matches |-> acc.documents_with_matches + 1])

\* Mutant of grep_documents: the content is fetched before the ref list is
\* looked at.
grep_documents_fetch_first(current, urns, pattern, context_chars, max_matches_per_doc, start_offset, store, contentFails) ==
    LET call == [operation_name |-> "documentContent", urns |-> urns]
        response == ContentResponse(store, urns)
    IN  IF get_datahub_client(current).raised
        THEN [raised |-> TRUE, value |-> None, calls |-> <<>>]
        ELSE IF contentFails
        THEN [raised |-> TRUE, value |-> None, calls |-> <<call>>]
        ELSE IF urns = <<>>
        THEN [raised |-> FALSE, value |-> GrepZero, calls |-> <<call>>]
        ELSE IF ~pattern.valid
        THEN [raised |-> FALSE, value |-> InvalidRegexResult(pattern),
              calls |-> <<call>>]
        ELSE [raised |-> FALSE,
              value |-> GrepLoop(response.entities, 1, pattern.literal, context_chars,
                                 max_matches_per_doc, start_offset, GrepZero),
              calls |-> <<call>>]

\* Returns [raised, value, calls]: get_datahub_client raises when no client
\* is set, before the ref list is looked at; execute_graphql raises when the
\* content fetch fails.
grep_documents(current, urns, pattern, context_chars, max_matches_per_doc, start_offset, store, contentFails) ==
    LET call == [operation_name |-> "documentContent", urns |-> urns]
        response == ContentResponse(store, urns)
    IN  IF get_datahub_client(current).raised
        THEN [raised |-> TRUE, value |-> None, calls |-> <<>>]
        ELSE IF urns = <<>>
        THEN [raised |-> FALSE, value |-> GrepZero, calls |-> <<>>]
        ELSE IF contentFails
        THEN [raised |-> TRUE, value |-> None, calls |-> <<call>>]
        ELSE IF ~pattern.valid
        THEN [raised |-> FALSE, value |-> InvalidRegexResult(pattern),
              calls |-> <<call>>]
        ELSE [raised |-> FALSE,
              value |-> GrepLoop(response.entities, 1, pattern.literal, context_chars,
                                 max_matches_per_doc, start_offset, GrepZero),
              calls |-> <<call>>]

\* ------------------------------------------------------- the client
\* with_client, entry: token = _mcp_dh_client.set(client). The token holds
\* the value the variable had (Unset for Token.MISSING).
with_client_enter(current, c) ==
    [client |-> c, token |-> [old_value |-> current]]

\* Mutant of with_client_exit: the reset is not in a finally clause.
with_client_exit_no_finally(current, token, exception) ==
    IF exception THEN current ELSE token.old_value

\* with_client, exit: the finally clause runs _mcp_dh_client.reset(token),
\* whether the block ended normally or by an exception.
with_client_exit(current, token, exception) == token.old_value

\* ------------------------------------------------------- cachetools
\* Mutant of CacheHit: an entry is still there at the time it expires.
CacheHitInclusive(entry, t) == entry # None /\ t <= entry.expires

\* TTLCache.__getitem__: an entry is there while timer() < expires.
CacheHit(entry, t) == entry # None /\ t < entry.expires
\* TTLCache.__setitem__: the entry set at time t.
CacheEntry(value, ttl, t) == [value |-> value, expires |-> t + ttl]
\* Mutant of Expire: setting an entry drops every other entry, live or not.
ExpireAll(cache, t) == [k \in DOMAIN cache |-> None]
\* TTLCache.expire(time), run by __setitem__: the expired entries are dropped.
Expire(cache, t) ==
    [k \in DOMAIN cache |-> IF CacheHit(cache[k], t) THEN cache[k] ELSE None]

\* ------------------------------------------------------- version gate
VersionRequirement(cloud_min, oss_min) == [cloud_min |-> cloud_min, oss_min |-> oss_min]

\* Mutant of TupleGE: every component is compared on its own.
TupleGEComponentwise(a, b) ==
    \A i \in 1 .. Min(Len(a), Len(b)) : a[i] >= b[i]

\* a >= b on Python tuples of ints: the first component that differs decides,
\* and the lengths when none does.
TupleGE(a, b) ==
    LET differ == {i \in 1 .. Min(Len(a), Len(b)) : a[i] # b[i]}
        first == CHOOSE i \in differ : \A j \in differ : i <= j
    IN  IF differ = {} THEN Len(a) >= Len(b) ELSE a[first] > b[first]

\* _is_tool_compatible
is_tool_compatible(req, is_cloud, server_version) ==
    IF is_cloud
    THEN IF req.cloud_min = None THEN FALSE
         ELSE TupleGE(server_version, req.cloud_min)
    ELSE IF req.oss_min = None THEN FALSE
         ELSE TupleGE(server_version, req.oss_min)

\* The body of _get_server_version_info on the server config of the current
\* client's backend: (is_cloud, parsed_version or (0, 0, 0, 0)). A
\* parsed_version that is None is a key the config does not have.
ServerVersionInfo(backend) ==
    [is_cloud |-> backend.server_config.is_datahub_cloud,
     version |-> Get(backend.server_config, "parsed_version", <<0, 0, 0, 0>>)]

\* Mutant of get_server_version_info: one entry for all the endpoints.
get_server_version_info_one_key(server_url, current, servers, cache, t) ==
    LET c == get_datahub_client(current)
        key == CHOOSE k \in DOMAIN cache : TRUE
    IN  IF CacheHit(cache[key], t)
        THEN [raised |-> FALSE, value |-> cache[key].value,
              cache |-> cache, probes |-> <<>>]
        ELSE IF c.raised
        THEN [raised |-> TRUE, value |-> None, cache |-> cache, probes |-> <<>>]
        ELSE IF ~servers[c.value].up
        THEN [raised |-> TRUE, value |-> None, cache |-> cache,
              probes |-> <<c.value>>]
        ELSE [raised |-> FALSE, value |-> ServerVersionInfo(servers[c.value]),
              cache |-> [Expire(cache, t) EXCEPT ![key] =
                            CacheEntry(ServerVersionInfo(servers[c.value]),
                                       VERSION_CHECK_CACHE_TTL_SECONDS, t)],
              probes |-> <<c.value>>]

\* _get_server_version_info under @cachetools.cached: [raised, value, cache,
\* probes]. A hit returns the entry; a miss runs the function on the current
\* client and stores what it returns; an exception stores nothing.
get_server_version_info(server_url, current, servers, cache, t) ==
    LET c == get_datahub_client(current)
    IN  IF CacheHit(cache[server_url], t)
        THEN [raised |-> FALSE, value |-> cache[server_url].value,
              cache |-> cache, probes |-> <<>>]
        ELSE IF c.raised
        THEN [raised |-> TRUE, value |-> None, cache |-> cache, probes |-> <<>>]
        ELSE IF ~servers[c.value].up
        THEN [raised |-> TRUE, value |-> None, cache |-> cache,
              probes |-> <<c.value>>]
        ELSE [raised |-> FALSE, value |-> ServerVersionInfo(servers[c.value]),
              cache |-> [Expire(cache, t) EXCEPT ![server_url] =
                            CacheEntry(ServerVersionInfo(servers[c.value]),
                                       VERSION_CHECK_CACHE_TTL_SECONDS, t)],
              probes |-> <<c.value>>]

\* getattr(tool, "name", None) is a name (not None).
HasName(tool) == "name" \in DOMAIN tool

\* TOOL_VERSION_REQUIREMENTS.get(tool_name) if tool_name else None
RequirementOf(tool, requirements) ==
    IF HasName(tool) /\ tool.name # ""
    THEN Get(requirements, tool.name, None) ELSE None

\* The loop body of filter_tools_by_version: whether the tool is appended.
KeepsTool(tool, requirements, info) ==
    LET req == RequirementOf(tool, requirements)
    IN  IF req = None THEN TRUE
        ELSE is_tool_compatible(req, info.is_cloud, info.version)

RECURSIVE FilterSeq(_, _, _)
FilterSeq(tools, requirements, info) ==
    IF tools = <<>> THEN <<>>
    ELSE (IF KeepsTool(Head(tools), requirements, info) THEN <<Head(tools)>> ELSE <<>>)
             \o FilterSeq(Tail(tools), requirements, info)

\* Mutant of filter_tools_by_version: a failed probe hides the restricted tools.
filter_tools_by_version_closed(tools, requirements, current, servers, cache, t) ==
    LET c == get_datahub_client(current)
        info == get_server_version_info(c.value, current, servers, cache, t)
    IN  IF DOMAIN requirements = {}
        THEN [value |-> tools, cache |-> cache, probes |-> <<>>]
        ELSE IF c.raised
        THEN [value |-> SelectSeq(tools, LAMBDA tool :
                            RequirementOf(tool, requirements) = None),
              cache |-> cache, probes |-> <<>>]
        ELSE IF info.raised
        THEN [value |-> SelectSeq(tools, LAMBDA tool :
                            RequirementOf(tool, requirements) = None),
              cache |-> info.cache, probes |-> info.probes]
        ELSE [value |-> FilterSeq(tools, requirements, info.value),
              cache |-> info.cache, probes |-> info.probes]

\* filter_tools_by_version: [value, cache, probes].
filter_tools_by_version(tools, requirements, current, servers, cache, t) ==
    LET c == get_datahub_client(current)
        info == get_server_version_info(c.value, current, servers, cache, t)
    IN  IF DOMAIN requirements = {}
        THEN [value |-> tools, cache |-> cache, probes |-> <<>>]
        ELSE IF c.raised
        THEN [value |-> tools, cache |-> cache, probes |-> <<>>]
        ELSE IF info.raised
        THEN [value |-> tools, cache |-> info.cache, probes |-> info.probes]
        ELSE [value |-> FilterSeq(tools, requirements, info.value),
              cache |-> info.cache, probes |-> info.probes]

\* ------------------------------------------- content-existence gate
DOCUMENT_TOOL_NAMES == {"search_documents", "grep_documents"}
DATAHUB_MCP_DOCUMENT_TOOLS_DISABLED_ENV_VAR == "DATAHUB_MCP_DOCUMENT_TOOLS_DISABLED"

\* str.lower(), character by character: each capital letter becomes its small
\* letter, every other character stays (the values here are ASCII).
ASCII_UPPERCASE == "ABCDEFGHIJKLMNOPQRSTUVWXYZ"
ASCII_LOWERCASE == "abcdefghijklmnopqrstuvwxyz"
LowerChar(c) ==
    IF \E k \in 1..Len(ASCII_UPPERCASE) : SubSeq(ASCII_UPPERCASE, k, k) = c
    THEN LET k == CHOOSE j \in 1..Len(ASCII_UPPERCASE) : SubSeq(ASCII_UPPERCASE, j, j) = c
         IN  SubSeq(ASCII_LOWERCASE, k, k)
    ELSE c
RECURSIVE LowerFrom(_, _)
LowerFrom(str, i) ==
    IF i > Len(str) THEN ""
    ELSE LowerChar(SubSeq(str, i, i)) \o LowerFrom(str, i + 1)
Lower(str) == LowerFrom(str, 1)

are_document_tools_disabled(env) ==
    Lower(Get(env, DATAHUB_MCP_DOCUMENT_TOOLS_DISABLED_ENV_VAR, "")) = "true"

\* execute_graphql(documentSearch, query "*", count 1): the response.
DocumentCountResponse(backend) ==
    [searchAcrossEntities |-> backend.searchAcrossEntities]

\* The body of _query_documents_exist_cached on a response: [raised, value].
\* A null "searchAcrossEntities" has no get (AttributeError) and a null
\* "total" does not compare with 0 (TypeError): the body raises.
HasDocuments(response) ==
    LET search_result == Get(response, "searchAcrossEntities", EmptyDict)
        total == IF IsNone(search_result) THEN None
                 ELSE Get(search_result, "total", 0)
    IN  IF IsNone(search_result) \/ IsNone(total)
        THEN [raised |-> TRUE, value |-> None]
        ELSE [raised |-> FALSE, value |-> total > 0]

\* Mutant of query_documents_exist_cached: a failed probe is cached as "no
\* documents".
query_documents_exist_cached_negative(current, servers, cache, t) ==
    LET c == get_datahub_client(current)
        body == HasDocuments(DocumentCountResponse(servers[c.value]))
        has_documents == body.value
    IN  IF CacheHit(cache, t)
        THEN [raised |-> FALSE, value |-> cache.value, cache |-> cache,
              probes |-> <<>>]
        ELSE IF c.raised
        THEN [raised |-> TRUE, value |-> None, cache |-> cache, probes |-> <<>>]
        ELSE IF ~servers[c.value].up \/ body.raised
        THEN [raised |-> TRUE, value |-> None,
              cache |-> CacheEntry(FALSE, DOCUMENT_CHECK_CACHE_TTL_SECONDS, t),
              probes |-> <<c.value>>]
        ELSE [raised |-> FALSE, value |-> has_documents,
              cache |-> CacheEntry(has_documents,
                                   DOCUMENT_CHECK_CACHE_TTL_SECONDS, t),
              probes |-> <<c.value>>]

\* Mutant of query_documents_exist_cached: an entry per backend, which a call
\* for another backend does not find.
query_documents_exist_cached_per_backend(current, servers, cache, t) ==
    LET c == get_datahub_client(current)
        body == HasDocuments(DocumentCountResponse(servers[c.value]))
        has_documents == body.value
    IN  IF CacheHit(cache, t) /\ (c.raised \/ body.raised \/ cache.value = has_documents)
        THEN [raised |-> FALSE, value |-> cache.value, cache |-> cache,
              probes |-> <<>>]
        ELSE IF c.raised
        THEN [raised |-> TRUE, value |-> None, cache |-> cache, probes |-> <<>>]
        ELSE IF ~servers[c.value].up \/ body.raised
        THEN [raised |-> TRUE, value |-> None, cache |-> cache,
              probes |-> <<c.value>>]
        ELSE [raised |-> FALSE, value |-> has_documents,
              cache |-> CacheEntry(has_documents,
                                   DOCUMENT_CHECK_CACHE_TTL_SECONDS, t),
              probes |-> <<c.value>>]

\* _query_documents_exist_cached under @cachetools.cached, a cache of the one
\* key (): [raised, value, cache, probes].
query_documents_exist_cached(current, servers, cache, t) ==
    LET c == get_datahub_client(current)
        body == HasDocuments(DocumentCountResponse(servers[c.value]))
        has_documents == body.value
    IN  IF CacheHit(cache, t)
        THEN [raised |-> FALSE, value |-> cache.value, cache |-> cache,
              probes |-> <<>>]
        ELSE IF c.raised
        THEN [raised |-> TRUE, value |-> None, cache |-> cache, probes |-> <<>>]
        ELSE IF ~servers[c.value].up \/ body.raised
        THEN [raised |-> TRUE, value |-> None, cache |-> cache,
              probes |-> <<c.value>>]
        ELSE [raised |-> FALSE, value |-> has_documents,
              cache |-> CacheEntry(has_documents,
                                   DOCUMENT_CHECK_CACHE_TTL_SECONDS, t),
              probes |-> <<c.value>>]

IsDocumentTool(tool) == HasName(tool) /\ tool.name \in DOCUMENT_TOOL_NAMES
NotDocumentTool(tool) == ~IsDocumentTool(tool)

\* Mutant of filter_document_tools: a failed probe shows all the tools.
filter_document_tools_open(tools, env, current, servers, cache, t) ==
    LET probe == query_documents_exist_cached(current, servers, cache, t)
        has_documents == IF probe.raised THEN TRUE ELSE probe.value
    IN  IF are_document_tools_disabled(env)
        THEN [value |-> SelectSeq(tools, NotDocumentTool), cache |-> cache,
              probes |-> <<>>]
        ELSE [value |-> IF has_documents THEN tools
                        ELSE SelectSeq(tools, NotDocumentTool),
              cache |-> probe.cache, probes |-> probe.probes]

\* Mutant of filter_document_tools: the environment variable is not looked at.
filter_document_tools_no_flag(tools, env, current, servers, cache, t) ==
    LET probe == query_documents_exist_cached(current, servers, cache, t)
        has_documents == IF probe.raised THEN FALSE ELSE probe.value
    IN  [value |-> IF has_documents THEN tools
                   ELSE SelectSeq(tools, NotDocumentTool),
         cache |-> probe.cache, probes |-> probe.probes]

\* filter_document_tools: [value, cache, probes].
filter_document_tools(tools, env, current, servers, cache, t) ==
    LET probe == query_documents_exist_cached(current, servers, cache, t)
        has_documents == IF probe.raised THEN FALSE ELSE probe.value
    IN  IF are_document_tools_disabled(env)
        THEN [value |-> SelectSeq(tools, NotDocumentTool), cache |-> cache,
              probes |-> <<>>]
        ELSE [value |-> IF has_documents THEN tools
                        ELSE SelectSeq(tools, NotDocumentTool),
              cache |-> probe.cache, probes |-> probe.probes]

\* ------------------------------------------------- the tool listing
\* Mutant of list_tools: the document-tools middleware is not registered.
list_tools_version_only(tools, env, requirements, current, servers, dcache, vcache, t) ==
    LET version == filter_tools_by_version(tools, requirements, current, servers, vcache, t)
    IN  [value |-> version.value,
         documents |-> [value |-> tools, cache |-> dcache, probes |-> <<>>],
         version |-> version]

\* A tools/list request through the middlewares create_app registers: each
\* on_list_tools awaits call_next and filters what it returns, and the
\* middleware added last is the innermost, so the document-tools filter runs
\* on the registered tools and the version filter on its result.
list_tools(tools, env, requirements, current, servers, dcache, vcache, t) ==
    LET documents == filter_document_tools(tools, env, current, servers, dcache, t)
        version == filter_tools_by_version(documents.value, requirements, current, servers, vcache, t)
    IN  [value |-> version.value, documents |-> documents, version |-> version]

\* ---------------------------------------------------------- create_app
DATAHUB_GMS_URL == "DATAHUB_GMS_URL"

\* DataHubClient.from_env: the client of the endpoint the environment names;
\* it raises when the environment names none or the endpoint does not answer.
from_env(env, servers) ==
    IF DATAHUB_GMS_URL \notin DOMAIN env
    THEN [raised |-> TRUE, value |-> Unset]
    ELSE IF ~servers[env[DATAHUB_GMS_URL]].up
    THEN [raised |-> TRUE, value |-> Unset]
    ELSE [raised |-> FALSE, value |-> env[DATAHUB_GMS_URL]]

\* The four add_middleware calls of create_app, in their order.
CreatedMiddlewares(c) ==
    <<[type |-> "_DataHubClientMiddleware", client |-> c],
      [type |-> "TelemetryMiddleware"],
      [type |-> "VersionFilterMiddleware"],
      [type |-> "DocumentToolsMiddleware"]>>
LoggingMiddleware == [type |-> "LoggingMiddleware", include_payloads |-> TRUE]

\* create_app: [raised, app_initialized, middleware]. The flag is set before
\* the client is made, and stays set when making the client raises.
create_app(initialized, added, env, servers) ==
    LET c == from_env(env, servers)
    IN  IF initialized
        THEN [raised |-> FALSE, app_initialized |-> TRUE, middleware |-> added]
        ELSE IF c.raised
        THEN [raised |-> TRUE, app_initialized |-> TRUE, middleware |-> added]
        ELSE [raised |-> FALSE, app_initialized |-> TRUE,
              middleware |-> added \o CreatedMiddlewares(c.value)]

\* main, up to mcp.run: create_app, and the logging middleware with --debug.
main(debug, initialized, added, env, servers) ==
    LET app == create_app(initialized, added, env, servers)
    IN  IF app.raised \/ ~debug THEN app
        ELSE [app EXCEPT !.middleware = Append(@, LoggingMiddleware)]

\* ------------------------------------------------------------ input sets
Refs == 1 .. NumRefs

\* A ranking lists each entity of the catalog at most once.
IsRanking(s) == \A i, j \in DOMAIN s : i # j => s[i] # s[j]
Rankings ==
    UNION {{s \in [1 .. n -> Refs] : IsRanking(s)} : n \in 0 .. MaxHits}

\* What _search_documents_impl returns for a ranking fetched whole.
ResponseOf(strategy, rank) ==
    clean_gql_response(
        BackendResponse(strategy, rank, [count |-> Max(Len(rank), MinCount)]))
\* Hits that reach the merge without an urn: no entity (the response's null
\* entity was cleaned away), an entity without urn.
UrnlessHits(strategy) ==
    {[payload |-> strategy], [entity |-> EmptyDict, payload |-> strategy]}
SparseHitLists(strategy) ==
    UNION {{<<h>>, <<h, Hit(1, strategy)>>, <<Hit(2, strategy), h, Hit(1, strategy)>>} :
              h \in UrnlessHits(strategy)}
SparseResponse(strategy, hits) ==
    [searchResults |-> hits, count |-> Len(hits), total |-> Len(hits), facets |-> strategy]
MergeInputs(strategy) ==
    {None} \cup {ResponseOf(strategy, r) : r \in Rankings}
           \cup {SparseResponse(strategy, l) : l \in SparseHitLists(strategy)}

\* Catalog rankings for the paging: the entities s+1 .. s+n, best first or
\* worst first; the long ones exceed the cap on num_results.
Window(s, n) == [i \in 1 .. n |-> s + i]
Reverse(s) == [i \in DOMAIN s |-> s[Len(s) + 1 - i]]
RankLengths == (0 .. MaxHits) \cup {MaxNumResults + 1}
Shifts == {0, 1, MaxNumResults + 1}
KeywordRanks == {Window(0, n) : n \in RankLengths}
SemanticRanks ==
    {Window(s, n) : s \in Shifts, n \in RankLengths}
        \cup {Reverse(Window(s, n)) : s \in Shifts, n \in RankLengths}
PageSizes == (0 .. MaxPage) \cup {MaxNumResults \div 2 + 1, MaxNumResults + 1}
Offsets == (0 .. MaxOffset) \cup {MaxNumResults \div 2 + 1, MaxNumResults}

\* Document texts, patterns and ref lists for the content search.
Alphabet == {"a", "b"}
Texts == UNION {[1 .. n -> Alphabet] : n \in 0 .. MaxTextLen}
SecondTexts == {<<>>, <<"a", "b">>, <<"a", "b", "a", "b", "a">>}
Entity(urn, text) == [urn |-> urn, title |-> "Untitled", text |-> text]
Patterns == {InvalidPattern} \cup {Literal(l) : l \in [1 .. 1 -> Alphabet] \cup [1 .. 2 -> Alphabet]}
UrnLists == {<<>>, <<1>>, <<1, 2>>, <<3, 2>>}

\* Endpoints, deployments, registered requirements and tool lists for the
\* gates on the tool listing.
Endpoints == {"A", "B"}
ServerConfig(is_cloud, parsed_version) ==
    [is_datahub_cloud |-> is_cloud, parsed_version |-> parsed_version]
Unparsed(is_cloud) == [is_datahub_cloud |-> is_cloud]
Backend(server_config, searchAcrossEntities) ==
    [up |-> TRUE, server_config |-> server_config,
     searchAcrossEntities |-> searchAcrossEntities]
Versions == {<<0, 3, 15, 0>>, <<0, 3, 16, 0>>, <<1, 3, 0, 0>>, <<1, 4, 0, 0>>}
ServerConfigs ==
    {ServerConfig(c, v) : c \in BOOLEAN, v \in Versions}
        \cup {Unparsed(c) : c \in BOOLEAN}
\* What "searchAcrossEntities" holds in the answer to the count query: a page
\* without a total, with none or two documents, or null.
CountResponses ==
    {[start |-> 0], [start |-> 0, total |-> 0], [start |-> 0, total |-> 2], None}
NoDocuments == [start |-> 0, total |-> 0]
Oss == ServerConfig(FALSE, <<1, 4, 0, 0>>)
Cloud == ServerConfig(TRUE, <<0, 3, 16, 0>>)
OldCloud == ServerConfig(TRUE, <<0, 3, 15, 0>>)
QuietBackends == [e \in Endpoints |-> Backend(Oss, NoDocuments)]
VersionBackends ==
    {("A" :> Backend(a, NoDocuments)) @@ ("B" :> Backend(b, NoDocuments)) :
        a \in ServerConfigs, b \in {Oss, OldCloud}}
DocumentBackends ==
    {("A" :> Backend(Cloud, r)) @@ ("B" :> Backend(Oss, q)) :
        r \in CountResponses, q \in {NoDocuments, [start |-> 0, total |-> 2]}}

\* Backends for the listing through both gates: A is a cloud deployment
\* that is upgraded and gets its first documents while the server runs, B a
\* self-managed one with documents.
SomeDocuments == [start |-> 0, total |-> 2]
ListingBackends ==
    {("A" :> Backend(OldCloud, NoDocuments)) @@ ("B" :> Backend(Oss, SomeDocuments))}
ListingEnvironments ==
    {[name \in {} |-> ""], (DATAHUB_MCP_DOCUMENT_TOOLS_DISABLED_ENV_VAR :> "true")}

\* The environments the server is started in: with the url of an endpoint,
\* or without any.
StartEnvironments ==
    {[name \in {} |-> ""]} \cup {(DATAHUB_GMS_URL :> u) : u \in Endpoints}

NoRequirements == [name \in {} |-> None]
Registered ==
    [add_tags |-> VersionRequirement(<<0, 3, 16, 0>>, <<1, 4, 0, 0>>),
     search_documents |-> VersionRequirement(<<0, 3, 16, 0>>, None),
     grep_documents |-> VersionRequirement(None, <<1, 4, 0, 0>>)]
RequirementSets == {NoRequirements, Registered}

Tool(name) == [name |-> name]
Nameless == [description |-> "a tool object without a name"]
ToolLists ==
    {<<>>,
     <<Tool("search"), Tool("add_tags"), Tool("search_documents"),
       Tool("grep_documents"), Tool("get_me")>>,
     <<Tool("grep_documents"), Nameless, Tool("search"), Tool("search_documents")>>}

\* The tools registered with the server, as a tools/list request finds them.
RegisteredTools ==
    {<<Tool("search"), Tool("add_tags"), Tool("search_documents"), Tool("grep_documents"), Tool("get_me")>>}

EnvValues ==
    {[name \in {} |-> ""]}
        \cup {(DATAHUB_MCP_DOCUMENT_TOOLS_DISABLED_ENV_VAR :> v) :
                 v \in {"true", "TRUE", "tRuE", "false", "FALSE", "1"}}

\* The tools/list requests that can be in progress at one time, and their
\* state before they start; the record of the probes' answers.
Requests == {"first", "second"}
NoRequest == [pc |-> "idle"]
NothingProbed ==
    [documents |-> {}, version |-> [e \in Endpoints |-> {}]]

\* The clock moves in steps of half a time-to-live.
TickSeconds == VERSION_CHECK_CACHE_TTL_SECONDS \div 2

Idle == [status |-> "idle"]

\* ------------------------------------------------------------------ state
MergeIdle == mKeyword = None /\ mSemantic = None /\ mResult = None
FuseIdle ==
    /\ kwRank = <<>> /\ semRank = <<>>
    /\ request = None /\ outcome = Idle /\ calls = <<>>
GrepIdle ==
    /\ docs = <<>>
    /\ grepRequest = None /\ grepOutcome = Idle /\ grepCalls = <<>>

ServerIdle == now = 0 /\ client = Unset /\ backends = QuietBackends
VersionIdle ==
    /\ TOOL_VERSION_REQUIREMENTS = NoRequirements
    /\ versionCache = [e \in Endpoints |-> None]
    /\ versionRequest = None /\ versionOutcome = Idle /\ versionProbes = <<>>
DocumentIdle ==
    /\ environ = [name \in {} |-> ""]
    /\ documentsCache = None
    /\ documentRequest = None /\ documentOutcome = Idle /\ documentProbes = <<>>
GateIdle == ServerIdle /\ VersionIdle /\ DocumentIdle
\* A tool call runs in a context where the middleware has set the server's
\* client, or (a helper used outside a request) in one without a client.
ToolContext ==
    /\ now = 0 /\ client \in {Unset, "A"} /\ backends = QuietBackends
    /\ VersionIdle /\ DocumentIdle

CreateIdle == app_initialized = FALSE /\ middleware = <<>> /\ appOutcome = Idle
ScopeIdle == tokens = <<>> /\ scopes = <<>> /\ clientOutcome = Idle
RequestsIdle ==
    /\ pending = [r \in Requests |-> NoRequest]
    /\ probed = NothingProbed
AppIdle == CreateIdle /\ ScopeIdle /\ RequestsIdle

\* _merge_search_results on its own, on every pair of small responses.
InitMerge ==
    /\ mKeyword \in MergeInputs("keyword")
    /\ mSemantic \in MergeInputs("semantic")
    /\ mResult = None
    /\ FuseIdle /\ GrepIdle /\ GateIdle /\ AppIdle

Merge ==
    /\ mResult = None
    /\ mResult' = merge_search_results(mKeyword, mSemantic)
    /\ mKeyword' = merge_arguments_after(mKeyword, mSemantic).keyword_results
    /\ mSemantic' = merge_arguments_after(mKeyword, mSemantic).semantic_results
    /\ UNCHANGED fuseVars /\ UNCHANGED grepVars /\ UNCHANGED gateVars /\ UNCHANGED appVars

NextMerge == Merge
SpecMerge == InitMerge /\ [][NextMerge]_vars

\* search_documents against a backend with fixed rankings.
Init ==
    /\ kwRank \in KeywordRanks
    /\ semRank \in SemanticRanks
    /\ request = None /\ outcome = Idle /\ calls = <<>>
    /\ MergeIdle /\ GrepIdle /\ ToolContext /\ AppIdle

\* One tool call, from its arguments to its result or its exception.
SearchDocuments ==
    /\ outcome = Idle
    /\ \E semantic_query \in BOOLEAN, num_results \in PageSizes, offset \in Offsets,
       kwFails \in BOOLEAN, semFails \in BOOLEAN :
        LET r == search_documents(client, semantic_query, num_results, offset,
                                  kwRank, semRank, kwFails, semFails)
        IN  /\ request' = [semantic_query |-> semantic_query,
                           num_results |-> num_results,
                           offset |-> offset,
                           kwFails |-> kwFails,
                           semFails |-> semFails]
            /\ outcome' = [status |-> IF r.raised THEN "raised" ELSE "returned",
                           result |-> r.value]
            /\ calls' = r.calls
            /\ UNCHANGED <<kwRank, semRank>>
            /\ UNCHANGED mergeVars /\ UNCHANGED grepVars /\ UNCHANGED gateVars /\ UNCHANGED appVars

\* The dispatcher hands the result to the agent; the next call starts afresh.
SearchDone ==
    /\ outcome # Idle
    /\ request' = None /\ outcome' = Idle /\ calls' = <<>>
    /\ UNCHANGED <<kwRank, semRank>>
    /\ UNCHANGED mergeVars /\ UNCHANGED grepVars /\ UNCHANGED gateVars /\ UNCHANGED appVars

Next == SearchDocuments \/ SearchDone
Spec == Init /\ [][Next]_vars

\* grep_documents against a backend holding two documents (urns 1 and 2).
InitGrep ==
    /\ docs \in {<<Entity(1, t1), Entity(2, t2)>> : t1 \in Texts, t2 \in SecondTexts}
    /\ grepRequest = None /\ grepOutcome = Idle /\ grepCalls = <<>>
    /\ MergeIdle /\ FuseIdle /\ ToolContext /\ AppIdle

\* One tool call, from its arguments to its result or its exception.
GrepDocuments ==
    /\ grepOutcome = Idle
    /\ \E urns \in UrnLists, pattern \in Patterns, context_chars \in 0 .. MaxContext,
          max_matches_per_doc \in 0 .. MaxMatches, start_offset \in 0 .. MaxStart,
          contentFails \in BOOLEAN :
        LET r == grep_documents(client, urns, pattern, context_chars, max_matches_per_doc,
                                start_offset, docs, contentFails)
        IN  /\ grepRequest' = [urns |-> urns, pattern |-> pattern,
                               context_chars |-> context_chars,
                               max_matches_per_doc |-> max_matches_per_doc,
                               start_offset |-> start_offset,
                               contentFails |-> contentFails]
            /\ grepOutcome' = [status |-> IF r.raised THEN "raised" ELSE "returned",
                               result |-> r.value]
            /\ grepCalls' = r.calls
            /\ UNCHANGED docs
            /\ UNCHANGED mergeVars /\ UNCHANGED fuseVars /\ UNCHANGED gateVars /\ UNCHANGED appVars

\* The dispatcher hands the result to the agent; the next call starts afresh.
GrepDone ==
    /\ grepOutcome # Idle
    /\ grepRequest' = None /\ grepOutcome' = Idle /\ grepCalls' = <<>>
    /\ UNCHANGED docs
    /\ UNCHANGED mergeVars /\ UNCHANGED fuseVars /\ UNCHANGED gateVars /\ UNCHANGED appVars

NextGrep == GrepDocuments \/ GrepDone
SpecGrep == InitGrep /\ [][NextGrep]_vars

\* ------------------------------------------------ the tool listing's gates
toolVars == <<mergeVars, fuseVars, grepVars>>
GatesIdle == versionOutcome = Idle /\ documentOutcome = Idle

\* Time passes between two calls.
Tick ==
    /\ GatesIdle
    /\ now < MaxTicks * TickSeconds
    /\ now' = now + TickSeconds
    /\ UNCHANGED <<client, backends>>
    /\ UNCHANGED versionVars /\ UNCHANGED documentVars /\ UNCHANGED toolVars /\ UNCHANGED appVars

\* set_client, or the entry of a with_client block.
SetClient ==
    /\ GatesIdle
    /\ \E e \in Endpoints : client # e /\ client' = e
    /\ UNCHANGED <<now, backends>>
    /\ UNCHANGED versionVars /\ UNCHANGED documentVars /\ UNCHANGED toolVars /\ UNCHANGED appVars

\* The exit of the with_client block that set the first client of the context.
ResetClient ==
    /\ GatesIdle
    /\ client # Unset
    /\ client' = Unset
    /\ UNCHANGED <<now, backends>>
    /\ UNCHANGED versionVars /\ UNCHANGED documentVars /\ UNCHANGED toolVars /\ UNCHANGED appVars

\* A backend stops answering.
Outage ==
    /\ GatesIdle
    /\ \E e \in Endpoints :
        /\ backends[e].up
        /\ backends' = [backends EXCEPT ![e].up = FALSE]
    /\ UNCHANGED <<now, client>>
    /\ UNCHANGED versionVars /\ UNCHANGED documentVars /\ UNCHANGED toolVars /\ UNCHANGED appVars

\* A backend answers again.
Recover ==
    /\ GatesIdle
    /\ \E e \in Endpoints :
        /\ ~backends[e].up
        /\ backends' = [backends EXCEPT ![e].up = TRUE]
    /\ UNCHANGED <<now, client>>
    /\ UNCHANGED versionVars /\ UNCHANGED documentVars /\ UNCHANGED toolVars /\ UNCHANGED appVars

\* filter_tools_by_version against backends of every deployment and version.
InitVersion ==
    /\ now = 0 /\ client = Unset
    /\ backends \in VersionBackends
    /\ TOOL_VERSION_REQUIREMENTS \in RequirementSets
    /\ versionCache = [e \in Endpoints |-> None]
    /\ versionRequest = None /\ versionOutcome = Idle /\ versionProbes = <<>>
    /\ DocumentIdle
    /\ MergeIdle /\ FuseIdle /\ GrepIdle /\ AppIdle

\* One call of filter_tools_by_version, with the cache it leaves.
FilterToolsByVersion ==
    /\ versionOutcome = Idle
    /\ \E tools \in ToolLists :
        LET r == filter_tools_by_version(tools, TOOL_VERSION_REQUIREMENTS, client,
                                         backends, versionCache, now)
        IN  /\ versionRequest' = [tools |-> tools]
            /\ versionOutcome' = [status |-> "returned", result |-> r.value]
            /\ versionCache' = r.cache
            /\ versionProbes' = r.probes
    /\ UNCHANGED TOOL_VERSION_REQUIREMENTS
    /\ UNCHANGED serverVars /\ UNCHANGED documentVars /\ UNCHANGED toolVars /\ UNCHANGED appVars

\* The listing is handed on; the next call starts afresh.
VersionDone ==
    /\ versionOutcome # Idle
    /\ versionRequest' = None /\ versionOutcome' = Idle /\ versionProbes' = <<>>
    /\ UNCHANGED <<TOOL_VERSION_REQUIREMENTS, versionCache>>
    /\ UNCHANGED serverVars /\ UNCHANGED documentVars /\ UNCHANGED toolVars /\ UNCHANGED appVars

NextVersion ==
    \/ Tick \/ SetClient \/ ResetClient \/ Outage \/ Recover
    \/ FilterToolsByVersion \/ VersionDone
SpecVersion == InitVersion /\ [][NextVersion]_vars

\* filter_document_tools against backends with and without documents.
InitDocuments ==
    /\ now = 0 /\ client = Unset
    /\ backends \in DocumentBackends
    /\ environ \in EnvValues
    /\ documentsCache = None
    /\ documentRequest = None /\ documentOutcome = Idle /\ documentProbes = <<>>
    /\ VersionIdle
    /\ MergeIdle /\ FuseIdle /\ GrepIdle /\ AppIdle

\* One call of filter_document_tools, with the cache it leaves.
FilterDocumentTools ==
    /\ documentOutcome = Idle
    /\ \E tools \in ToolLists :
        LET r == filter_document_tools(tools, environ, client, backends,
                                       documentsCache, now)
        IN  /\ documentRequest' = [tools |-> tools]
            /\ documentOutcome' = [status |-> "returned", result |-> r.value]
            /\ documentsCache' = r.cache
            /\ documentProbes' = r.probes
    /\ UNCHANGED environ
    /\ UNCHANGED serverVars /\ UNCHANGED versionVars /\ UNCHANGED toolVars /\ UNCHANGED appVars

\* The listing is handed on; the next call starts afresh.
DocumentsDone ==
    /\ documentOutcome # Idle
    /\ documentRequest' = None /\ documentOutcome' = Idle /\ documentProbes' = <<>>
    /\ UNCHANGED <<environ, documentsCache>>
    /\ UNCHANGED serverVars /\ UNCHANGED versionVars /\ UNCHANGED toolVars /\ UNCHANGED appVars

NextDocuments ==
    \/ Tick \/ SetClient \/ ResetClient \/ Outage \/ Recover
    \/ FilterDocumentTools \/ DocumentsDone
SpecDocuments == InitDocuments /\ [][NextDocuments]_vars

\* The tool listing through both gates, against backends that change.
InitListing ==
    /\ now = 0 /\ client = Unset
    /\ backends \in ListingBackends
    /\ TOOL_VERSION_REQUIREMENTS = Registered
    /\ environ \in ListingEnvironments
    /\ versionCache = [e \in Endpoints |-> None]
    /\ documentsCache = None
    /\ versionRequest = None /\ versionOutcome = Idle /\ versionProbes = <<>>
    /\ documentRequest = None /\ documentOutcome = Idle /\ documentProbes = <<>>
    /\ MergeIdle /\ FuseIdle /\ GrepIdle /\ AppIdle

\* The backend is upgraded to the version the cloud-only tools need.
UpgradeBackend ==
    /\ GatesIdle
    /\ backends["A"].server_config = OldCloud
    /\ backends' = [backends EXCEPT !["A"].server_config = Cloud]
    /\ UNCHANGED <<now, client>>
    /\ UNCHANGED versionVars /\ UNCHANGED documentVars /\ UNCHANGED toolVars /\ UNCHANGED appVars

\* The first documents are written to the catalog.
IngestDocuments ==
    /\ GatesIdle
    /\ backends["A"].searchAcrossEntities = NoDocuments
    /\ backends' = [backends EXCEPT !["A"].searchAcrossEntities = SomeDocuments]
    /\ UNCHANGED <<now, client>>
    /\ UNCHANGED versionVars /\ UNCHANGED documentVars /\ UNCHANGED toolVars /\ UNCHANGED appVars

\* One tools/list request: the registered tools through both filters, with
\* the caches they leave.
ListTools ==
    /\ GatesIdle
    /\ \E tools \in ToolLists :
        LET r == list_tools(tools, environ, TOOL_VERSION_REQUIREMENTS, client, backends, documentsCache, versionCache, now)
        IN  /\ documentRequest' = [tools |-> tools]
            /\ documentOutcome' = [status |-> "returned", result |-> r.documents.value]
            /\ documentsCache' = r.documents.cache
            /\ documentProbes' = r.documents.probes
            /\ versionRequest' = [tools |-> r.documents.value]
            /\ versionOutcome' = [status |-> "returned", result |-> r.version.value]
            /\ versionCache' = r.version.cache
            /\ versionProbes' = r.version.probes
    /\ UNCHANGED <<TOOL_VERSION_REQUIREMENTS, environ>>
    /\ UNCHANGED serverVars /\ UNCHANGED toolVars /\ UNCHANGED appVars

\* The listing is sent to the agent; the next request starts afresh.
ListDone ==
    /\ versionOutcome # Idle /\ documentOutcome # Idle
    /\ versionRequest' = None /\ versionOutcome' = Idle /\ versionProbes' = <<>>
    /\ documentRequest' = None /\ documentOutcome' = Idle /\ documentProbes' = <<>>
    /\ UNCHANGED <<TOOL_VERSION_REQUIREMENTS, versionCache, environ, documentsCache>>
    /\ UNCHANGED serverVars /\ UNCHANGED toolVars /\ UNCHANGED appVars

NextListing ==
    \/ Tick \/ SetClient \/ ResetClient \/ Outage \/ Recover
    \/ UpgradeBackend \/ IngestDocuments
    \/ ListTools \/ ListDone
SpecListing == InitListing /\ [][NextListing]_vars

\* create_app and main, called any number of times in one process.
InitApp ==
    /\ app_initialized = FALSE /\ middleware = <<>> /\ appOutcome = Idle
    /\ environ \in StartEnvironments
    /\ now = 0 /\ client = Unset /\ backends = QuietBackends
    /\ VersionIdle
    /\ documentsCache = None
    /\ documentRequest = None /\ documentOutcome = Idle /\ documentProbes = <<>>
    /\ MergeIdle /\ FuseIdle /\ GrepIdle
    /\ ScopeIdle /\ RequestsIdle

AppFrame ==
    /\ UNCHANGED serverVars /\ UNCHANGED versionVars
    /\ UNCHANGED <<documentsCache, documentRequest, documentOutcome, documentProbes>>
    /\ UNCHANGED toolVars /\ UNCHANGED scopeVars /\ UNCHANGED requestVars

\* One call of create_app (by fastmcp's factory entry point, or a test).
CreateApp ==
    /\ appOutcome = Idle
    /\ LET r == create_app(app_initialized, middleware, environ, backends)
       IN  /\ app_initialized' = r.app_initialized
           /\ middleware' = r.middleware
           /\ appOutcome' = [status |-> IF r.raised THEN "raised" ELSE "returned"]
    /\ UNCHANGED environ /\ AppFrame

\* One call of main, up to mcp.run.
Main ==
    /\ appOutcome = Idle
    /\ Len(middleware) < MaxMiddleware
    /\ \E debug \in BOOLEAN :
        LET r == main(debug, app_initialized, middleware, environ, backends)
        IN  /\ app_initialized' = r.app_initialized
            /\ middleware' = r.middleware
            /\ appOutcome' = [status |-> IF r.raised THEN "raised" ELSE "returned"]
    /\ UNCHANGED environ /\ AppFrame

\* The caller has the server, or the exception.
AppDone ==
    /\ appOutcome # Idle
    /\ appOutcome' = Idle
    /\ UNCHANGED <<app_initialized, middleware, environ>> /\ AppFrame

\* The connection settings are changed between two calls.
Configure ==
    /\ appOutcome = Idle
    /\ \E env \in StartEnvironments : env # environ /\ environ' = env
    /\ UNCHANGED <<app_initialized, middleware, appOutcome>> /\ AppFrame

NextApp == CreateApp \/ Main \/ AppDone \/ Configure \/ Outage \/ Recover
SpecApp == InitApp /\ [][NextApp]_vars

\* The context variable of one context, through nested with_client blocks
\* and plain set_client calls.
InitClient ==
    /\ client = Unset /\ tokens = <<>> /\ scopes = <<>> /\ clientOutcome = Idle
    /\ now = 0 /\ backends = QuietBackends
    /\ VersionIdle /\ DocumentIdle
    /\ MergeIdle /\ FuseIdle /\ GrepIdle
    /\ CreateIdle /\ RequestsIdle

ClientFrame ==
    /\ UNCHANGED <<now, backends>> /\ UNCHANGED versionVars /\ UNCHANGED documentVars
    /\ UNCHANGED toolVars /\ UNCHANGED createVars /\ UNCHANGED requestVars

\* A with_client block is entered (by _DataHubClientMiddleware for a request,
\* or by a caller inside it).
EnterWithClient ==
    /\ Len(tokens) < MaxDepth
    /\ \E c \in Endpoints :
        LET r == with_client_enter(client, c)
        IN  /\ client' = r.client
            /\ tokens' = Append(tokens, r.token)
            /\ scopes' = Append(scopes, [before |-> client, client |-> c])
            /\ clientOutcome' = [status |-> "entered"]
    /\ ClientFrame

\* The innermost open block is left, normally or by an exception.
ExitWithClient ==
    /\ tokens # <<>>
    /\ \E exception \in BOOLEAN :
        /\ client' = with_client_exit(client, tokens[Len(tokens)], exception)
        /\ clientOutcome' = [status |-> "exited", exception |-> exception]
    /\ tokens' = SubSeq(tokens, 1, Len(tokens) - 1)
    /\ scopes' = SubSeq(scopes, 1, Len(scopes) - 1)
    /\ ClientFrame

\* get_client, inside or outside a block.
GetClient ==
    /\ LET r == get_datahub_client(client)
       IN  clientOutcome' = IF r.raised THEN [status |-> "raised"]
                            ELSE [status |-> "returned", value |-> r.value]
    /\ UNCHANGED <<client, tokens, scopes>>
    /\ ClientFrame

NextClient == EnterWithClient \/ ExitWithClient \/ GetClient \/ SetClient
SpecClient == InitClient /\ [][NextClient]_vars

\* Concurrent tools/list requests, each in its own context with its own
\* client. A request goes through the document filter and then the version
\* filter; in each, the wrapper cachetools.cached puts around the probe looks
\* the key up, on a miss calls the probe, and stores what it returned. The
\* wrapper takes no lock: between these three steps the other request runs.
\* The process is fresh, or it has answered one listing at time 0, for the
\* client `earlier`, which left its two entries.
EarlierListing(earlier, servers) ==
    LET body == HasDocuments(DocumentCountResponse(servers[earlier]))
        has_documents == body.value
        info == ServerVersionInfo(servers[earlier])
    IN  [documentsCache |-> IF body.raised THEN None
                            ELSE CacheEntry(has_documents, DOCUMENT_CHECK_CACHE_TTL_SECONDS, 0),
         versionCache |-> [e \in Endpoints |->
                              IF e = earlier
                              THEN CacheEntry(info, VERSION_CHECK_CACHE_TTL_SECONDS, 0)
                              ELSE None],
         probed |-> [documents |-> IF body.raised THEN {} ELSE {has_documents},
                     version |-> [e \in Endpoints |->
                                     IF e = earlier THEN {info} ELSE {}]]]

InitConcurrent ==
    /\ pending = [r \in Requests |-> NoRequest]
    /\ now = 0 /\ client = Unset
    /\ backends \in ListingBackends
    /\ \/ /\ probed = NothingProbed
          /\ versionCache = [e \in Endpoints |-> None]
          /\ documentsCache = None
       \/ \E earlier \in Endpoints :
              /\ probed = EarlierListing(earlier, backends).probed
              /\ versionCache = EarlierListing(earlier, backends).versionCache
              /\ documentsCache = EarlierListing(earlier, backends).documentsCache
    /\ TOOL_VERSION_REQUIREMENTS = Registered
    /\ environ = [name \in {} |-> ""]
    /\ versionRequest = None /\ versionOutcome = Idle /\ versionProbes = <<>>
    /\ documentRequest = None /\ documentOutcome = Idle /\ documentProbes = <<>>
    /\ MergeIdle /\ FuseIdle /\ GrepIdle
    /\ CreateIdle /\ ScopeIdle

ConcurrentFrame ==
    /\ UNCHANGED serverVars
    /\ UNCHANGED <<TOOL_VERSION_REQUIREMENTS, versionRequest, versionOutcome, versionProbes>>
    /\ UNCHANGED <<environ, documentRequest, documentOutcome, documentProbes>>
    /\ UNCHANGED toolVars /\ UNCHANGED createVars /\ UNCHANGED scopeVars

\* _DataHubClientMiddleware sets the request's client; the registered tools
\* come back from call_next.
StartRequest(r) ==
    /\ pending[r].pc = "idle"
    /\ \E c \in Endpoints, tools \in RegisteredTools :
        pending' = [pending EXCEPT ![r] =
                        [pc |-> "documents", client |-> c, tools |-> tools]]
    /\ UNCHANGED <<probed, versionCache, documentsCache>>
    /\ ConcurrentFrame

\* filter_document_tools, the wrapper's lookup: cache[()] or KeyError.
DocumentsLookup(r) ==
    /\ pending[r].pc = "documents"
    /\ pending' = [pending EXCEPT ![r] =
                      IF CacheHit(documentsCache, now)
                      THEN Put(Put(@, "has_documents", documentsCache.value),
                               "pc", "version")
                      ELSE Put(@, "pc", "documents_probe")]
    /\ UNCHANGED <<probed, versionCache, documentsCache>>
    /\ ConcurrentFrame

\* The wrapper calls _query_documents_exist_cached's body: the count query.
\* A body that raises stores nothing, and filter_document_tools goes on with
\* has_documents = False.
DocumentsProbe(r) ==
    /\ pending[r].pc = "documents_probe"
    /\ LET body == HasDocuments(DocumentCountResponse(backends[pending[r].client]))
       IN  IF body.raised
           THEN /\ pending' = [pending EXCEPT ![r] =
                                  Put(Put(@, "has_documents", FALSE), "pc", "version")]
                /\ UNCHANGED probed
           ELSE /\ pending' = [pending EXCEPT ![r] =
                                  Put(Put(@, "has_documents", body.value),
                                      "pc", "documents_store")]
                /\ probed' = [probed EXCEPT !.documents = @ \cup {body.value}]
    /\ UNCHANGED <<versionCache, documentsCache>>
    /\ ConcurrentFrame

\* The wrapper stores the value: cache[()] = v.
DocumentsStore(r) ==
    /\ pending[r].pc = "documents_store"
    /\ documentsCache' = CacheEntry(pending[r].has_documents,
                                    DOCUMENT_CHECK_CACHE_TTL_SECONDS, now)
    /\ pending' = [pending EXCEPT ![r] = Put(Put(@, "probed_documents", TRUE), "pc", "version")]
    /\ UNCHANGED <<probed, versionCache>>
    /\ ConcurrentFrame

\* The request's listing, once it has the deployment info.
Listed(request_, info) ==
    Put(Put(Put(request_, "info", info), "pc", "done"), "result",
        FilterSeq(IF request_.has_documents THEN request_.tools
                  ELSE SelectSeq(request_.tools, NotDocumentTool),
                  TOOL_VERSION_REQUIREMENTS, info))

\* filter_tools_by_version, the wrapper's lookup: cache[server_url] or KeyError.
VersionLookup(r) ==
    /\ pending[r].pc = "version"
    /\ pending' = [pending EXCEPT ![r] =
                      IF CacheHit(versionCache[@.client], now)
                      THEN Listed(@, versionCache[@.client].value)
                      ELSE Put(@, "pc", "version_probe")]
    /\ UNCHANGED <<probed, versionCache, documentsCache>>
    /\ ConcurrentFrame

\* The wrapper calls _get_server_version_info's body: the server config.
VersionProbe(r) ==
    /\ pending[r].pc = "version_probe"
    /\ LET v == ServerVersionInfo(backends[pending[r].client])
       IN  /\ pending' = [pending EXCEPT ![r] =
                             Put(Put(@, "info", v), "pc", "version_store")]
           /\ probed' = [probed EXCEPT !.version[pending[r].client] = @ \cup {v}]
    /\ UNCHANGED <<versionCache, documentsCache>>
    /\ ConcurrentFrame

\* The wrapper stores the value: cache[server_url] = v; the filter runs.
VersionStore(r) ==
    /\ pending[r].pc = "version_store"
    /\ versionCache' = [Expire(versionCache, now) EXCEPT ![pending[r].client] =
                           CacheEntry(pending[r].info,
                                      VERSION_CHECK_CACHE_TTL_SECONDS, now)]
    /\ pending' = [pending EXCEPT ![r] = Listed(Put(@, "probed_version", TRUE), @.info)]
    /\ UNCHANGED <<probed, documentsCache>>
    /\ ConcurrentFrame

\* The steps of a request that has started.
RequestStep(r) ==
    \/ DocumentsLookup(r) \/ DocumentsProbe(r) \/ DocumentsStore(r)
    \/ VersionLookup(r) \/ VersionProbe(r) \/ VersionStore(r)

NextConcurrent ==
    \/ \E r \in Requests : StartRequest(r) \/ RequestStep(r)
    \/ Tick \/ UpgradeBackend
SpecConcurrent == InitConcurrent /\ [][NextConcurrent]_vars
\* A request that has started runs on: its steps wait for nothing but the
\* backend's answer.
FairConcurrent == SpecConcurrent /\ \A r \in Requests : WF_vars(RequestStep(r))

\* ================================================================ claims
\* ------------------------------------------------ under SpecMerge
MergeCalled == mResult # None
MergedHits == Get(mResult, "searchResults", <<>>)
KeywordHits == IF Truthy(mKeyword) THEN Get(mKeyword, "searchResults", <<>>) ELSE <<>>
SemanticHits == IF Truthy(mSemantic) THEN Get(mSemantic, "searchResults", <<>>) ELSE <<>>
BothUrns == Urns(KeywordHits) \cap Urns(SemanticHits)
\* The hits that carry a ref (an urn that is not empty).
HasRef(result) == ~Falsy(UrnOf(result))
HaveRefs(results) == \A i \in DOMAIN results : HasRef(results[i])

\* C1: the merged list holds every urn at most once, and every urn that is in
\* both the keyword and the semantic hit list is in it (so exactly once),
\* with searchType "both". (Hits without an urn, which the merge of two
\* non-empty lists drops, have no ref to repeat.)
C1_Dedup ==
    MergeCalled =>
        /\ \A i, j \in DOMAIN MergedHits :
               (i # j /\ HasRef(MergedHits[i]) /\ HasRef(MergedHits[j]))
                   => UrnOf(MergedHits[i]) # UrnOf(MergedHits[j])
        /\ \A u \in BothUrns :
               \E i \in DOMAIN MergedHits :
                   /\ UrnOf(MergedHits[i]) = u
                   /\ MergedHits[i]["searchType"] = "both"

\* A merge whose interleaving loop meets an urn of both lists that the
\* remaining lists both still hold.
C1_Witness ==
    /\ MergeCalled
    /\ HaveRefs(KeywordHits) /\ HaveRefs(SemanticHits)
    /\ Len(KeywordHits) = 3 /\ Len(SemanticHits) >= 2
    /\ UrnOf(KeywordHits[3]) = UrnOf(SemanticHits[2])
    /\ UrnOf(KeywordHits[1]) # UrnOf(SemanticHits[1])
    /\ UrnOf(SemanticHits[1]) \notin Urns(KeywordHits)
    /\ Len(MergedHits) = 4

\* C9: when the keyword hit list is not empty (and its first hit has a ref),
\* the first merged hit is the first keyword hit's entity, whatever the
\* semantic hits are.
C9_LexicalFirst ==
    (MergeCalled /\ KeywordHits # <<>> /\ HasRef(KeywordHits[1])) =>
        /\ MergedHits # <<>>
        /\ UrnOf(MergedHits[1]) = UrnOf(KeywordHits[1])

\* A merge of two non-empty lists with different top hits.
C9_Witness ==
    /\ MergeCalled
    /\ HaveRefs(KeywordHits) /\ HaveRefs(SemanticHits)
    /\ KeywordHits # <<>> /\ SemanticHits # <<>>
    /\ UrnOf(KeywordHits[1]) # UrnOf(SemanticHits[1])
    /\ UrnOf(SemanticHits[1]) \in Urns(KeywordHits)
    /\ UrnOf(MergedHits[2]) = UrnOf(SemanticHits[1])

\* ------------------------------------------------------ under Spec
\* The claims are about calls the server serves: the middleware has set the
\* client of the request's context. (Without one the call raises LookupError
\* before it sends anything.)
Called == outcome # Idle /\ client # Unset
Returned == outcome.status = "returned"
Hybrid == Called /\ request.semantic_query
KeywordOnlyCall == Called /\ ~request.semantic_query
ResultHits == Get(outcome.result, "searchResults", <<>>)
UrnList(results) == [i \in DOMAIN results |-> UrnOf(results[i])]
PageOf(results) ==
    Slice(results, request.offset, request.offset + request.num_results)

\* The hits the backend returned to the hybrid call's keyword search.
FetchedKeywordHits == Hits(Slice(kwRank, 0, calls[1].count), "keyword")
\* The hits the backend returned to the hybrid call's semantic search.
FetchedSemanticHits == Hits(Slice(semRank, 0, calls[2].count), "semantic")

\* C2: in a hybrid call whose keyword search succeeds, if the semantic search
\* raises, or returns no hits while the keyword search returned some, the call
\* returns, and its hits are the requested page of the keyword hits, each with
\* searchType "keyword".
C2_SemanticFallback ==
    (/\ Hybrid
     /\ ~request.kwFails
     /\ \/ request.semFails
        \/ (FetchedSemanticHits = <<>> /\ FetchedKeywordHits # <<>>))
    => /\ Returned
       /\ ResultHits = PageOf(TagAll(FetchedKeywordHits, "keyword"))
       /\ \A i \in DOMAIN ResultHits : ResultHits[i]["searchType"] = "keyword"

\* The semantic search raised and the page returned holds keyword hits.
C2_Witness ==
    /\ Hybrid /\ ~request.kwFails /\ request.semFails
    /\ semRank # <<>>
    /\ Returned /\ Len(ResultHits) >= 2

\* C3: if the keyword search raises, the call raises: no result is returned,
\* with or without a semantic query, whatever the semantic search would do.
C3_LexicalFailurePropagates ==
    (Called /\ request.kwFails) =>
        /\ outcome.status = "raised"
        /\ outcome.result = None

\* A hybrid call whose keyword search failed and whose semantic search would
\* have returned hits.
C3_Witness ==
    /\ Hybrid /\ request.kwFails /\ ~request.semFails
    /\ semRank # <<>> /\ request.num_results > 0
    /\ outcome.status = "raised"

\* The hits of the same search asked as one page from offset 0, against the
\* same backend behaving the same way.
WholePageHits(num_results) ==
    Get(search_documents(client, request.semantic_query, num_results, 0, kwRank, semRank,
                         request.kwFails, request.semFails).value,
        "searchResults", <<>>)

\* The request is fuse(offset = a + k, pageSize = k) for some a >= 0, and
\* a + 2k is at most `cap`.
IsSecondPage(cap) ==
    /\ Called /\ Returned
    /\ request.offset >= request.num_results
    /\ request.offset + request.num_results <= cap

\* C4 as claimed: for every search (with or without a semantic query) and all
\* a, k >= 0 with a + 2k <= 100, the hits of (offset a+k, size k) are elements
\* [a+k : a+2k] of the hits of (offset 0, size a+2k).
C4_Original ==
    IsSecondPage(MAX_HYBRID_FETCH_RESULTS) =>
        ResultHits = PageOf(WholePageHits(request.offset + request.num_results))

\* C4 as amended: the same, for a + 2k <= 100 with a semantic query, and for
\* a + 2k <= 50 without one (the keyword-only search caps num_results at 50).
C4_PaginationConsistency ==
    IsSecondPage(IF request.semantic_query
                 THEN MAX_HYBRID_FETCH_RESULTS ELSE MaxNumResults) =>
        ResultHits = PageOf(WholePageHits(request.offset + request.num_results))

\* A non-empty hybrid second page that ends beyond 50, merged from
\* overlapping rankings.
C4_Witness ==
    /\ IsSecondPage(MAX_HYBRID_FETCH_RESULTS)
    /\ request.semantic_query /\ ~request.semFails
    /\ request.offset + request.num_results > MaxNumResults
    /\ Urns(Hits(kwRank, "keyword")) \cap Urns(Hits(semRank, "semantic")) # {}
    /\ Len(ResultHits) = request.num_results
    /\ request.num_results > MaxPage

\* C5 as claimed (for a page with offset + size >= 1): a hybrid call issues the
\* keyword and the semantic query with count = min(offset + size, 100), the
\* keyword query with start 0.
C5_Claim ==
    (Hybrid /\ ~request.kwFails /\ request.offset + request.num_results >= 1) =>
        /\ Len(calls) = 2
        /\ calls[1].operation_name = "documentSearch"
        /\ calls[1].count = FetchCount(request.num_results, request.offset)
        /\ calls[1].start = 0
        /\ calls[2].operation_name = "documentSemanticSearch"
        /\ calls[2].count = FetchCount(request.num_results, request.offset)

\* C6 as claimed: the page returned never holds more than 50 hits.
C6_Claim ==
    (Called /\ Returned) => Len(ResultHits) <= MaxNumResults

\* C7 as claimed: without a semantic query every hit returned has searchType
\* "keyword".
C7_Original ==
    (KeywordOnlyCall /\ Returned) =>
        \A i \in DOMAIN ResultHits :
            /\ "searchType" \in DOMAIN ResultHits[i]
            /\ ResultHits[i]["searchType"] = "keyword"

\* C7 as amended: without a semantic query the call issues the one keyword
\* query and no semantic one, and returns the keyword hits as the backend gave
\* them, in its order, none carrying a searchType.
C7_KeywordOnlyUntagged ==
    (KeywordOnlyCall /\ Returned) =>
        /\ Len(calls) = 1
        /\ calls[1].operation_name = "documentSearch"
        /\ ResultHits =
               IF request.num_results = 0 THEN <<>>
               ELSE Hits(Slice(kwRank, request.offset,
                               request.offset + calls[1].count), "keyword")
        /\ \A i \in DOMAIN ResultHits : "searchType" \notin DOMAIN ResultHits[i]

\* A keyword-only call that returned hits, against a backend that has
\* semantic hits too.
C7_Witness ==
    /\ KeywordOnlyCall /\ Returned
    /\ Len(ResultHits) >= 2 /\ semRank # <<>>

\* The full merged list of a hybrid call: the merge of what the two searches
\* returned (None for a semantic search that raised).
FullMergedList ==
    Get(merge_search_results(
            search_documents_impl(client, "keyword",
                FetchCount(request.num_results, request.offset), 0,
                kwRank, FALSE).value,
            IF request.semFails THEN None
            ELSE search_documents_impl(client, "semantic",
                     FetchCount(request.num_results, request.offset), 0,
                     semRank, FALSE).value),
        "searchResults", <<>>)

\* The list the page is cut from, as claimed for every request: the merged
\* list with a semantic query, the keyword hits fetched from position 0
\* without one.
ClaimedFullList ==
    IF request.semantic_query THEN FullMergedList
    ELSE Hits(Slice(kwRank, 0, FetchCount(request.num_results, request.offset)),
              "keyword")

\* C8 as claimed: for every request (here: of at least one hit) the page is
\* [offset : offset + size] of the full merged list and total is the length of
\* that list.
C8_Original ==
    (Called /\ Returned /\ request.num_results >= 1) =>
        /\ UrnList(ResultHits) = UrnList(PageOf(ClaimedFullList))
        /\ outcome.result["total"] = Len(ClaimedFullList)

\* C8 as amended: that holds of every call with a semantic query; without one
\* the page is the backend's own page and total is the backend's total.
C8_PageAndTotal ==
    /\ (Hybrid /\ Returned) =>
           /\ ResultHits = PageOf(FullMergedList)
           /\ outcome.result["total"] = Len(FullMergedList)
           /\ outcome.result["count"] = Len(ResultHits)
           /\ outcome.result["start"] = request.offset
    /\ (KeywordOnlyCall /\ Returned) =>
           /\ UrnList(ResultHits) =
                  IF request.num_results = 0 THEN <<>>
                  ELSE Slice(kwRank, request.offset, request.offset + calls[1].count)
           /\ outcome.result["total"] = Len(kwRank)

\* A hybrid page cut from inside a longer merged list whose length differs
\* from both backend totals.
C8_Witness ==
    /\ Hybrid /\ Returned /\ ~request.semFails
    /\ request.offset > 0 /\ ResultHits # <<>>
    /\ Len(FullMergedList) > request.offset + Len(ResultHits)
    /\ outcome.result["total"] # Len(kwRank)
    /\ outcome.result["total"] # Len(semRank)

\* --------------------------------------------------- under SpecGrep
\* As for search_documents, the calls the server serves, with a client set.
GrepCalled == grepOutcome # Idle /\ client # Unset
GrepReturned == grepOutcome.status = "returned"

\* C10 as claimed (for a non-empty ref list): with an invalid pattern the call
\* returns, whatever the backend does, a result whose error starts with
\* "Invalid regex pattern", with no results and zero totals.
C10_Claim ==
    (GrepCalled /\ ~grepRequest.pattern.valid /\ grepRequest.urns # <<>>) =>
        /\ GrepReturned
        /\ "error" \in DOMAIN grepOutcome.result
        /\ grepOutcome.result["error"][1] = "Invalid regex pattern: "
        /\ grepOutcome.result["results"] = <<>>
        /\ grepOutcome.result["total_matches"] = 0
        /\ grepOutcome.result["documents_with_matches"] = 0

GrepOk == GrepCalled /\ GrepReturned /\ grepRequest.pattern.valid
GrepResults == grepOutcome.result["results"]
FullText(urn) == docs[urn].text
\* The part of a document's text the call scans.
View(urn) == Slice(FullText(urn), grepRequest.start_offset, Len(FullText(urn)))

\* The starts of the non-overlapping matches of the literal in the text, found
\* left to right: a position where the literal occurs is a match unless it
\* lies inside an earlier match.
TrueStarts(text, lit) ==
    CHOOSE S \in SUBSET (0 .. Len(text)) :
        \A q \in 0 .. Len(text) :
            q \in S <=>
                /\ MatchesAt(text, lit, q)
                /\ ~\E p \in S : p < q /\ q < p + Len(lit)
TrueCount(urn) == Cardinality(TrueStarts(View(urn), grepRequest.pattern.literal))

\* C11: the position of every excerpt returned is at or after start_offset, the
\* pattern occurs at that position of the document's full text, and the
\* position is start_offset plus the start of the match in the sliced text.
C11_AbsolutePosition ==
    GrepOk =>
        \A i \in DOMAIN GrepResults :
            LET e == GrepResults[i]
                lit == grepRequest.pattern.literal
            IN  \A j \in DOMAIN e.matches :
                    LET pos == e.matches[j].position
                    IN  /\ pos >= grepRequest.start_offset
                        /\ MatchesAt(FullText(e.urn), lit, pos)
                        /\ pos - grepRequest.start_offset
                               \in TrueStarts(View(e.urn), lit)

\* A call with a start offset that returned a match lying further into the
\* sliced text.
C11_Witness ==
    /\ GrepOk /\ grepRequest.start_offset > 0
    /\ \E i \in DOMAIN GrepResults :
           \E j \in DOMAIN GrepResults[i].matches :
               LET pos == GrepResults[i].matches[j].position
               IN  /\ pos > grepRequest.start_offset
                   /\ ~MatchesAt(FullText(GrepResults[i].urn),
                                 grepRequest.pattern.literal,
                                 pos - grepRequest.start_offset)

\* C12: every entry's total_matches is the number of non-overlapping matches
\* in the scanned text, whatever max_matches_per_doc is, and its matches are
\* the first min(total_matches, max_matches_per_doc) of them, left to right.
C12_TrueCount ==
    GrepOk =>
        \A i \in DOMAIN GrepResults :
            LET e == GrepResults[i]
                starts == TrueStarts(View(e.urn), grepRequest.pattern.literal)
            IN  /\ e.total_matches = Cardinality(starts)
                /\ e.total_matches >= 1
                /\ Len(e.matches) =
                       Min(e.total_matches, grepRequest.max_matches_per_doc)
                /\ \A j \in DOMAIN e.matches :
                       LET at == e.matches[j].position - grepRequest.start_offset
                       IN  /\ at \in starts
                           /\ Cardinality({p \in starts : p < at}) = j - 1

\* A document with more matches than the limit: the limit's excerpts are
\* returned and all the matches counted.
C12_Witness ==
    /\ GrepOk /\ grepRequest.max_matches_per_doc >= 1
    /\ \E i \in DOMAIN GrepResults :
           /\ GrepResults[i].total_matches > grepRequest.max_matches_per_doc
           /\ Len(GrepResults[i].matches) = grepRequest.max_matches_per_doc

\* The document is held by the backend and its text is no longer than
\* start_offset.
ShortDocument(urn) ==
    /\ urn \in DOMAIN docs
    /\ Len(FullText(urn)) <= grepRequest.start_offset
NotShort(urn) == ~ShortDocument(urn)

\* C13: no entry is for a document whose text is no longer than start_offset;
\* every other document asked for in which the pattern occurs at or after
\* start_offset has an entry; and the result is the result of the same call
\* without the short documents.
C13_ShortDocumentSkipped ==
    GrepOk =>
        /\ \A i \in DOMAIN GrepResults : ~ShortDocument(GrepResults[i].urn)
        /\ \A k \in DOMAIN grepRequest.urns :
               LET urn == grepRequest.urns[k]
               IN  (/\ urn \in DOMAIN docs
                    /\ ~ShortDocument(urn)
                    /\ \E p \in grepRequest.start_offset .. Len(FullText(urn)) :
                           MatchesAt(FullText(urn), grepRequest.pattern.literal, p))
                   => \E i \in DOMAIN GrepResults : GrepResults[i].urn = urn
        /\ grepOutcome.result =
               grep_documents(client, SelectSeq(grepRequest.urns, NotShort),
                              grepRequest.pattern, grepRequest.context_chars,
                              grepRequest.max_matches_per_doc,
                              grepRequest.start_offset, docs, FALSE).value

\* The first document of the batch is too short for the offset, though the
\* pattern occurs in it, and the second is reported.
C13_Witness ==
    /\ GrepOk /\ grepRequest.start_offset > 0
    /\ grepRequest.urns = <<1, 2>>
    /\ ShortDocument(1) /\ FullText(1) # <<>>
    /\ \E p \in 0 .. Len(FullText(1)) :
           MatchesAt(FullText(1), grepRequest.pattern.literal, p)
    /\ Len(GrepResults) = 1 /\ GrepResults[1].urn = 2

\* C14: a call with an empty ref list returns the zero result and issues no
\* backend call, whatever the pattern is and whatever the backend would do.
C14_EmptyRefs ==
    (GrepCalled /\ grepRequest.urns = <<>>) =>
        /\ GrepReturned
        /\ grepOutcome.result = GrepZero
        /\ grepCalls = <<>>

\* A call with an empty ref list and an invalid pattern, while the backend is
\* failing.
C14_Witness ==
    /\ GrepCalled /\ grepRequest.urns = <<>>
    /\ ~grepRequest.pattern.valid /\ grepRequest.contentFails
    /\ GrepReturned

RECURSIVE SumTotalMatches(_)
SumTotalMatches(results) ==
    IF results = <<>> THEN 0
    ELSE Head(results).total_matches + SumTotalMatches(Tail(results))

\* C15: in every result returned, each entry has at least one match in the
\* scanned text, documents_with_matches is the number of entries, and
\* total_matches is the sum of the entries' total_matches.
C15_Aggregates ==
    (GrepCalled /\ GrepReturned) =>
        /\ \A i \in DOMAIN GrepResults :
               /\ GrepResults[i].total_matches >= 1
               /\ GrepResults[i].total_matches = TrueCount(GrepResults[i].urn)
        /\ grepOutcome.result["documents_with_matches"] = Len(GrepResults)
        /\ grepOutcome.result["total_matches"] = SumTotalMatches(GrepResults)

\* Two documents reported, with more matches counted than excerpts returned.
C15_Witness ==
    /\ GrepOk /\ Len(GrepResults) = 2
    /\ grepOutcome.result["total_matches"] >
           Len(GrepResults[1].matches) + Len(GrepResults[2].matches)
    /\ Len(GrepResults[2].matches) >= 1

\* C16: an entry has content_length exactly when start_offset > 0, and then it
\* is the length of the document's full text.
C16_ContentLength ==
    GrepOk =>
        \A i \in DOMAIN GrepResults :
            /\ ("content_length" \in DOMAIN GrepResults[i])
                   <=> grepRequest.start_offset > 0
            /\ "content_length" \in DOMAIN GrepResults[i] =>
                   GrepResults[i]["content_length"] = Len(FullText(GrepResults[i].urn))

\* An entry of a call with a start offset, carrying the full length.
C16_Witness ==
    /\ GrepOk /\ grepRequest.start_offset > 0
    /\ \E i \in DOMAIN GrepResults :
           /\ "content_length" \in DOMAIN GrepResults[i]
           /\ GrepResults[i]["content_length"] > Len(View(GrepResults[i].urn))

\* ------------------------------------------------ under SpecVersion
VersionCalled == versionOutcome # Idle
VersionTools == versionRequest.tools

\* Obtaining the deployment info raised in the last call: no client was set,
\* or the entry of the client's endpoint was absent or expired and its backend
\* did not answer (a failed probe leaves the cache as it was).
VersionInfoRaised ==
    \/ client = Unset
    \/ (~CacheHit(versionCache[client], now) /\ ~backends[client].up)

\* The deployment info the last call filtered with: the entry of the client's
\* endpoint, which a call that obtained the info found or stored.
VersionInfoUsed == versionCache[client].value

\* a >= b on 4-tuples, lexicographically.
LexGE4(a, b) ==
    \/ a[1] > b[1]
    \/ a[1] = b[1] /\ a[2] > b[2]
    \/ a[1] = b[1] /\ a[2] = b[2] /\ a[3] > b[3]
    \/ a[1] = b[1] /\ a[2] = b[2] /\ a[3] = b[3] /\ a[4] >= b[4]

\* The tool has no registered requirement, or the minimum registered for the
\* connected deployment class is not null and the version is at least it.
PassesVersionGate(tool) ==
    LET registered == "name" \in DOMAIN tool
                          /\ tool.name \in DOMAIN TOOL_VERSION_REQUIREMENTS
        req == TOOL_VERSION_REQUIREMENTS[tool.name]
        minimum == IF VersionInfoUsed.is_cloud THEN req.cloud_min ELSE req.oss_min
    IN  \/ ~registered
        \/ (minimum # None /\ LexGE4(VersionInfoUsed.version, minimum))

\* C17: a call that obtained the deployment info returns the tools of its input
\* that pass the version gate, in their order; a call with no requirements
\* registered returns its input.
C17_VersionGate ==
    /\ (VersionCalled /\ ~VersionInfoRaised
            /\ DOMAIN TOOL_VERSION_REQUIREMENTS # {}) =>
           versionOutcome.result = SelectSeq(VersionTools, PassesVersionGate)
    /\ (VersionCalled /\ DOMAIN TOOL_VERSION_REQUIREMENTS = {}) =>
           versionOutcome.result = VersionTools

\* A hosted deployment whose version exceeds the minimum in the first
\* component only: the tools with a hosted minimum are kept and the tool
\* without one is dropped.
C17_Witness ==
    /\ VersionCalled /\ ~VersionInfoRaised
    /\ TOOL_VERSION_REQUIREMENTS = Registered
    /\ VersionInfoUsed = [is_cloud |-> TRUE, version |-> <<1, 3, 0, 0>>]
    /\ Len(VersionTools) = 5
    /\ versionOutcome.result =
           <<Tool("search"), Tool("add_tags"), Tool("search_documents"),
             Tool("get_me")>>

\* C18: a call in which obtaining the deployment info raised returns its input
\* list, whatever requirements are registered.
C18_VersionFailOpen ==
    (VersionCalled /\ VersionInfoRaised) =>
        versionOutcome.result = VersionTools

\* The probe of a backend that does not answer, made because the entry had
\* expired, while requirements are registered that the expired entry failed.
C18_Witness ==
    /\ VersionCalled /\ client # Unset
    /\ TOOL_VERSION_REQUIREMENTS = Registered
    /\ versionProbes = <<client>> /\ ~backends[client].up
    /\ versionCache[client] # None /\ ~CacheHit(versionCache[client], now)
    /\ Len(VersionTools) = 5
    /\ SelectSeq(VersionTools, PassesVersionGate) # VersionTools
    /\ versionOutcome.result = VersionTools

\* ---------------------------------------------- under SpecDocuments
DocumentCalled == documentOutcome # Idle
DocumentTools == documentRequest.tools

\* The spellings of "true" in any letter case.
TrueSpellings ==
    {t \o r \o u \o e : t \in {"t", "T"}, r \in {"r", "R"},
                         u \in {"u", "U"}, e \in {"e", "E"}}
\* The static flag: the variable is set to "true", in any letter case.
FlagSet ==
    /\ DATAHUB_MCP_DOCUMENT_TOOLS_DISABLED_ENV_VAR \in DOMAIN environ
    /\ environ[DATAHUB_MCP_DOCUMENT_TOOLS_DISABLED_ENV_VAR] \in TrueSpellings

\* The existence probe raised in the last call: the flag was not set, the
\* entry was absent or expired, and no client was set or its backend did not
\* answer or answered with a null in the place of the page (a failed probe
\* leaves the cache as it was).
NullPage(backend) == backend.searchAcrossEntities = None
NoAnswer == client = Unset \/ ~backends[client].up \/ NullPage(backends[client])
DocumentProbeRaised ==
    /\ ~FlagSet
    /\ ~CacheHit(documentsCache, now)
    /\ NoAnswer

OtherTool(tool) ==
    ~("name" \in DOMAIN tool /\ tool.name \in {"search_documents", "grep_documents"})
WithoutDocumentTools(tools) == SelectSeq(tools, OtherTool)

\* C19: a call whose existence probe raised returns its input without the two
\* document tools, the other tools in their order.
C19_DocumentFailClosed ==
    (DocumentCalled /\ DocumentProbeRaised) =>
        documentOutcome.result = WithoutDocumentTools(DocumentTools)

\* The probe of a backend that holds documents and does not answer, made
\* because the entry that reported documents had expired.
C19_Witness ==
    /\ DocumentCalled /\ DocumentProbeRaised /\ client # Unset
    /\ documentProbes = <<client>>
    /\ Get(backends[client].searchAcrossEntities, "total", 0) > 0
    /\ documentsCache # None /\ documentsCache.value
    /\ Len(DocumentTools) = 5
    /\ Len(documentOutcome.result) = 3

\* C20: a call whose probe, if made, did not raise returns its input without
\* the two document tools if the flag is set or the cached probe reports no
\* document, and its input otherwise; a probe made in the call reports what
\* the client's backend holds; and every call keeps the other tools in their
\* order.
C20_DocumentGate ==
    DocumentCalled =>
        /\ ~DocumentProbeRaised =>
               documentOutcome.result =
                   IF FlagSet \/ ~documentsCache.value
                   THEN WithoutDocumentTools(DocumentTools)
                   ELSE DocumentTools
        /\ documentProbes # <<>> /\ ~NoAnswer =>
               documentsCache.value =
                   (Get(backends[client].searchAcrossEntities, "total", 0) > 0)
        /\ WithoutDocumentTools(documentOutcome.result) =
               WithoutDocumentTools(DocumentTools)

\* The flag is set in mixed case while the client's backend holds documents:
\* the document tools are removed, without a probe.
C20_Witness ==
    /\ DocumentCalled /\ FlagSet
    /\ environ[DATAHUB_MCP_DOCUMENT_TOOLS_DISABLED_ENV_VAR] = "tRuE"
    /\ client # Unset /\ backends[client].up
    /\ Get(backends[client].searchAcrossEntities, "total", 0) > 0
    /\ documentProbes = <<>> /\ documentsCache = None
    /\ Len(DocumentTools) = 4
    /\ documentOutcome.result = <<Nameless, Tool("search")>>

\* ------------------------------------------------ under Spec
\* The refs of page i (offset i * k, size k) of the search of the request,
\* asked of the same backend behaving the same way.
PageUrns(i) ==
    UrnList(Get(search_documents(client, TRUE, request.num_results, i * request.num_results, kwRank, semRank, request.kwFails, request.semFails).value, "searchResults", <<>>))
RECURSIVE PagesUpTo(_)
PagesUpTo(j) == IF j < 0 THEN <<>> ELSE PagesUpTo(j - 1) \o PageUrns(j)
\* The request is page j of a run of hybrid pages of one size k >= 1 at the
\* offsets 0, k, 2k, ... with offset + k <= 100.
IsSuccessivePage ==
    /\ Hybrid /\ Returned
    /\ request.num_results >= 1
    /\ request.offset % request.num_results = 0
    /\ request.offset + request.num_results <= MAX_HYBRID_FETCH_RESULTS
NoRepeat(s) == \A i, j \in DOMAIN s : s[i] = s[j] => i = j

\* C25: the pages of one size k at the offsets 0, k, ..., j * k of a hybrid
\* search, put end to end, are the first (j + 1) * k refs of the merged list
\* the last of these requests was cut from; no ref is repeated, none skipped.
C25_StablePages ==
    IsSuccessivePage =>
        LET j == request.offset \div request.num_results
            pages == PagesUpTo(j)
        IN  /\ pages = UrnList(Slice(FullMergedList, 0, (j + 1) * request.num_results))
            /\ NoRepeat(pages)
            /\ PageUrns(j) = UrnList(ResultHits)

\* The second of two pages of 26: the searches are asked for 52 hits and give
\* 50 each, the rankings overlap, and both pages are full.
C25_Witness ==
    /\ IsSuccessivePage
    /\ request.offset = request.num_results
    /\ request.offset + request.num_results > MaxNumResults
    /\ ~request.semFails
    /\ Urns(Hits(kwRank, "keyword")) \cap Urns(Hits(semRank, "semantic")) # {}
    /\ kwRank # semRank
    /\ Len(PagesUpTo(1)) = 2 * request.num_results
    /\ Len(ResultHits) = request.num_results

\* ------------------------------------------------ under SpecMerge
\* The reference merge of two non-empty hit lists. Its turns, in order: the
\* top keyword hit, the top semantic hit, then for i = 1, 2, ... the i-th
\* remaining keyword hit and the i-th remaining semantic hit, the remaining
\* hits of a list being those after its first whose ref is not among the
\* two top hits. A turn beyond the end of its list is empty.
RefRest(hits, top) ==
    SelectSeq(SubSeq(hits, 2, Len(hits)), LAMBDA r : UrnOf(r) \notin top)
RefMergeOf(keyword, semantic, both) ==
    LET top == {UrnOf(keyword[1]), UrnOf(semantic[1])}
        rest == <<RefRest(keyword, top), RefRest(semantic, top)>>
        turns == 2 + 2 * Max(Len(rest[1]), Len(rest[2]))
        own == [j \in 1 .. turns |-> IF j % 2 = 1 THEN 1 ELSE 2]
        index == [j \in 1 .. turns |-> IF j <= 2 THEN 1 ELSE (j - 1) \div 2]
        list == [j \in 1 .. turns |->
                    IF j = 1 THEN <<keyword[1]>>
                    ELSE IF j = 2 THEN <<semantic[1]>>
                    ELSE rest[own[j]]]
        has == [j \in 1 .. turns |-> index[j] <= Len(list[j])]
        urn == [j \in 1 .. turns |->
                    IF has[j] THEN UrnOf(list[j][index[j]]) ELSE 0]
        \* The turns that emit: those with a hit whose ref no earlier turn holds.
        emitting == {j \in 1 .. turns :
                        has[j] /\ \A k \in 1 .. j - 1 : has[k] => urn[k] # urn[j]}
        rank == [j \in emitting |-> Cardinality({k \in emitting : k <= j})]
        tag(j) == IF urn[j] \in both THEN "both"
                  ELSE IF own[j] = 1 THEN "keyword" ELSE "semantic"
    IN  [i \in 1 .. Cardinality(emitting) |->
            LET j == CHOOSE j \in emitting : rank[j] = i
            IN  Put(list[j][index[j]], "searchType", tag(j))]
RefMerge == RefMergeOf(KeywordHits, SemanticHits, BothUrns)

\* C24: when both hit lists are non-empty (lists of hits with refs), the
\* merged list is the reference merge (a hit already emitted is skipped and
\* its turn is spent), and the refs of the merged list are the refs of the
\* two lists.
C24_ReferenceMerge ==
    (/\ MergeCalled /\ KeywordHits # <<>> /\ SemanticHits # <<>>
     /\ HaveRefs(KeywordHits) /\ HaveRefs(SemanticHits)) =>
        /\ MergedHits = RefMerge
        /\ Urns(MergedHits) = Urns(KeywordHits) \cup Urns(SemanticHits)
        /\ mResult["total"] = Len(MergedHits)
        /\ mResult["count"] = Len(MergedHits)

\* The top semantic hit is the second keyword hit: the third keyword hit is
\* the first remaining one and comes before the second semantic hit.
C24_Witness ==
    /\ MergeCalled
    /\ HaveRefs(KeywordHits) /\ HaveRefs(SemanticHits)
    /\ Len(KeywordHits) = 3 /\ Len(SemanticHits) = 2
    /\ UrnOf(SemanticHits[1]) = UrnOf(KeywordHits[2])
    /\ UrnOf(SemanticHits[2]) \notin Urns(KeywordHits)
    /\ Len(MergedHits) = 4
    /\ UrnOf(MergedHits[3]) = UrnOf(KeywordHits[3])
    /\ MergedHits[2]["searchType"] = "both"
    /\ MergedHits[4]["searchType"] = "semantic"

\* ------------------------------------------------ under SpecListing
\* A step that is one tools/list request.
ListingStep == GatesIdle /\ documentOutcome' # Idle /\ versionOutcome' # Idle
ListedTools == documentRequest'.tools
DocumentEntryLive == documentsCache # None /\ now < documentsCache.expires
VersionEntryLive(e) == versionCache[e] # None /\ now < versionCache[e].expires
HoldsDocuments(e) ==
    /\ "total" \in DOMAIN backends[e].searchAcrossEntities
    /\ backends[e].searchAcrossEntities.total > 0
\* What a probe of endpoint e reports now.
DeploymentInfo(e) ==
    [is_cloud |-> backends[e].server_config.is_datahub_cloud,
     version |-> IF "parsed_version" \in DOMAIN backends[e].server_config
                 THEN backends[e].server_config.parsed_version
                 ELSE <<0, 0, 0, 0>>]
\* The tool passes the version gate under the deployment info.
PassesUnder(tool, info) ==
    LET registered == "name" \in DOMAIN tool
                          /\ tool.name \in DOMAIN TOOL_VERSION_REQUIREMENTS
        req == TOOL_VERSION_REQUIREMENTS[tool.name]
        minimum == IF info.is_cloud THEN req.cloud_min ELSE req.oss_min
    IN  \/ ~registered
        \/ (minimum # None /\ LexGE4(info.version, minimum))
FilteredUnder(tools, info) == SelectSeq(tools, LAMBDA tool : PassesUnder(tool, info))
ShownIf(tools, has_documents) ==
    IF has_documents THEN tools ELSE WithoutDocumentTools(tools)

\* C21, one request: while an entry is live (set at t, now < t + 60) the
\* request issues no probe for it, leaves it as it is and filters with its
\* value; a request with a client that finds no live entry (none, or now >=
\* t + 60) issues exactly one probe, and if the backend answers the entry
\* becomes what it reported, expiring 60 s from now.
C21_Request ==
    ListingStep =>
        /\ (~FlagSet /\ DocumentEntryLive) =>
               /\ documentProbes' = <<>>
               /\ documentsCache' = documentsCache
               /\ documentOutcome'.result = ShownIf(ListedTools, documentsCache.value)
        /\ (~FlagSet /\ ~DocumentEntryLive /\ client # Unset) =>
               /\ documentProbes' = <<client>>
               /\ backends[client].up =>
                      documentsCache' =
                          [value |-> HoldsDocuments(client),
                           expires |-> now + DOCUMENT_CHECK_CACHE_TTL_SECONDS]
        /\ (client # Unset /\ VersionEntryLive(client)) =>
               /\ versionProbes' = <<>>
               /\ versionCache' = versionCache
               /\ versionOutcome'.result =
                      FilteredUnder(versionRequest'.tools, versionCache[client].value)
        /\ (client # Unset /\ ~VersionEntryLive(client)) =>
               /\ versionProbes' = <<client>>
               /\ backends[client].up =>
                      versionCache'[client] =
                          [value |-> DeploymentInfo(client),
                           expires |-> now + VERSION_CHECK_CACHE_TTL_SECONDS]

\* C21: each gating cache holds a probed value for 60 s: requests before the
\* entry's expiry use it without a probe, and the first request at or after
\* the expiry probes once and replaces it.
C21_TimeToLive == [][C21_Request]_vars

\* A request 30 s after the probes of a backend that has since been upgraded
\* and has got documents: no probe, and the listing is the one of the cached
\* values (no document tool, no add_tags).
C21_Witness ==
    /\ VersionCalled /\ DocumentCalled /\ ~FlagSet
    /\ client = "A" /\ backends["A"].up
    /\ now = TickSeconds
    /\ documentProbes = <<>> /\ versionProbes = <<>>
    /\ documentsCache # None /\ documentsCache.expires = DOCUMENT_CHECK_CACHE_TTL_SECONDS
    /\ versionCache["A"] # None
    /\ versionCache["A"].expires = VERSION_CHECK_CACHE_TTL_SECONDS
    /\ HoldsDocuments("A") /\ ~documentsCache.value
    /\ DeploymentInfo("A") # versionCache["A"].value
    /\ Len(DocumentTools) = 5
    /\ versionOutcome.result = <<Tool("search"), Tool("get_me")>>

\* C22, one request: the listing is the list the two filters give in the
\* other order, with the same caches left, and it holds exactly the tools of
\* the request that each filter on its own keeps, in their order.
C22_Request ==
    ListingStep =>
        LET version == filter_tools_by_version(ListedTools, TOOL_VERSION_REQUIREMENTS, client, backends, versionCache, now)
            documents == filter_document_tools(version.value, environ, client, backends, documentsCache, now)
            alone == filter_document_tools(ListedTools, environ, client, backends, documentsCache, now)
            kept(filtered, tool) == \E i \in DOMAIN filtered : filtered[i] = tool
        IN  /\ versionOutcome'.result = documents.value
            /\ versionCache' = version.cache
            /\ documentsCache' = documents.cache
            /\ versionProbes' = version.probes
            /\ documentProbes' = documents.probes
            /\ versionOutcome'.result =
                   SelectSeq(ListedTools, LAMBDA tool :
                       kept(version.value, tool) /\ kept(alone.value, tool))

\* C22: every tools/list request applies both gates, and their order does
\* not matter.
C22_BothGates == [][C22_Request]_vars

\* A listing for the self-managed backend while the cache says "no
\* documents": the version gate alone keeps grep_documents, the document
\* gate alone keeps add_tags, and neither is all of the listing's filter.
C22_Witness ==
    /\ VersionCalled /\ DocumentCalled /\ ~FlagSet
    /\ client = "B" /\ documentsCache # None /\ ~documentsCache.value
    /\ Len(DocumentTools) = 5
    /\ documentOutcome.result = <<Tool("search"), Tool("add_tags"), Tool("get_me")>>
    /\ versionOutcome.result = <<Tool("search"), Tool("add_tags"), Tool("get_me")>>
    /\ FilteredUnder(DocumentTools, versionCache["B"].value) =
           <<Tool("search"), Tool("add_tags"), Tool("grep_documents"), Tool("get_me")>>

\* The deployment infos an endpoint has reported at some time.
ReportedBy(e) ==
    IF e = "A"
    THEN {[is_cloud |-> TRUE, version |-> OldCloud.parsed_version],
          [is_cloud |-> TRUE, version |-> Cloud.parsed_version]}
    ELSE {[is_cloud |-> FALSE, version |-> Oss.parsed_version]}

\* C26, one request for endpoint e: it probes no other endpoint; it probes e
\* if e has no live entry; every entry holds an info its own endpoint
\* reported; and unless the probe fails the listing is filtered under an info
\* that e reported.
C26_Request ==
    (ListingStep /\ client # Unset) =>
        /\ versionProbes' \in {<<>>, <<client>>}
        /\ ~VersionEntryLive(client) => versionProbes' = <<client>>
        /\ \A k \in Endpoints :
               versionCache'[k] # None => versionCache'[k].value \in ReportedBy(k)
        /\ (VersionEntryLive(client) \/ backends[client].up) =>
               \E info \in ReportedBy(client) :
                   versionOutcome'.result = FilteredUnder(versionRequest'.tools, info)

\* C26: the version cache is keyed by the endpoint: a listing for one endpoint
\* is never filtered with the info of another.
C26_KeyedByEndpoint == [][C26_Request]_vars

\* A listing for B while A's entry is live: B is probed and add_tags, which
\* A's (old cloud) info hides, is listed.
C26_Witness ==
    /\ VersionCalled /\ client = "B"
    /\ versionCache["A"] # None /\ now < versionCache["A"].expires
    /\ versionCache["A"].value.version = OldCloud.parsed_version
    /\ versionProbes = <<"B">>
    /\ versionCache["B"] # None /\ ~versionCache["B"].value.is_cloud
    /\ \E i \in DOMAIN versionOutcome.result : versionOutcome.result[i] = Tool("add_tags")

\* C28, one request with a client: a probe of a backend that does not answer
\* leaves the cache as it was (so the entry is still not live), with the
\* listing failed open (version) or closed (documents); and a request that
\* finds no live entry and a backend that answers probes it and lists what
\* it reports now.
C28_Request ==
    (ListingStep /\ client # Unset) =>
        /\ (~FlagSet /\ ~DocumentEntryLive /\ ~backends[client].up) =>
               /\ documentProbes' = <<client>>
               /\ documentsCache' = documentsCache
               /\ documentOutcome'.result = WithoutDocumentTools(ListedTools)
        /\ (~VersionEntryLive(client) /\ ~backends[client].up) =>
               /\ versionProbes' = <<client>>
               /\ versionCache' = versionCache
               /\ versionOutcome'.result = versionRequest'.tools
        /\ (~FlagSet /\ ~DocumentEntryLive /\ backends[client].up) =>
               /\ documentProbes' = <<client>>
               /\ documentOutcome'.result = ShownIf(ListedTools, HoldsDocuments(client))
        /\ (~VersionEntryLive(client) /\ backends[client].up) =>
               /\ versionProbes' = <<client>>
               /\ versionOutcome'.result =
                      FilteredUnder(versionRequest'.tools, DeploymentInfo(client))

\* C28: a failed probe is not cached: the entry stays as it was, and the next
\* request probes again.
C28_FailureNotCached == [][C28_Request]_vars

\* Both probes of a backend that does not answer, made because both entries
\* had expired: the expired entries are still there, nothing newer is.
C28_Witness ==
    /\ VersionCalled /\ DocumentCalled /\ ~FlagSet
    /\ client = "A" /\ ~backends["A"].up
    /\ versionProbes = <<"A">> /\ documentProbes = <<"A">>
    /\ versionCache["A"] # None /\ versionCache["A"].expires <= now
    /\ documentsCache # None /\ documentsCache.expires <= now
    /\ Len(DocumentTools) = 5
    /\ Len(documentOutcome.result) = 3
    /\ versionOutcome.result = documentOutcome.result

\* ---------------------------------------------- under SpecDocuments
\* A step that is one call of filter_document_tools.
DocumentStep == documentOutcome = Idle /\ documentOutcome' # Idle

\* C29, one call: while the entry is live and the flag is not set, the call
\* issues no probe, whatever client it runs with (none included), and shows
\* or hides the document tools as the entry says, whatever the catalog of
\* its own backend holds.
C29_Call ==
    (DocumentStep /\ ~FlagSet /\ DocumentEntryLive) =>
        \A e \in Endpoints \cup {Unset} :
            client = e =>
                /\ documentProbes' = <<>>
                /\ documentsCache' = documentsCache
                /\ documentOutcome'.result =
                       ShownIf(documentRequest'.tools, documentsCache.value)

\* C29: the existence result is one entry for all callers and backends: for
\* 60 s after a probe of one backend, the calls for any other backend use its
\* result.
C29_OneGlobalEntry == [][C29_Call]_vars

\* A call for B, whose catalog holds no document, within the 60 s after a
\* probe of A, whose catalog holds some: no probe, and the document tools are
\* listed.
C29_Witness ==
    /\ DocumentCalled /\ ~FlagSet
    /\ client = "B" /\ backends["B"].up
    /\ ~HoldsDocuments("B") /\ HoldsDocuments("A")
    /\ documentsCache # None /\ now < documentsCache.expires
    /\ documentsCache.value
    /\ documentProbes = <<>>
    /\ Len(DocumentTools) = 5
    /\ documentOutcome.result = DocumentTools

\* ------------------------------------------------ under SpecApp
\* How many middlewares of the type are registered.
Registrations(type) ==
    Cardinality({i \in DOMAIN middleware : middleware[i].type = type})
CreatedTypes ==
    {"_DataHubClientMiddleware", "TelemetryMiddleware", "VersionFilterMiddleware", "DocumentToolsMiddleware"}

\* C23 as claimed: whenever a call of create_app (or of main, which calls it)
\* has returned the server, each of the four middlewares is registered on it
\* exactly once.
C23_Claim ==
    appOutcome.status = "returned" =>
        \A type \in CreatedTypes : Registrations(type) = 1

\* ------------------------------------------------ under SpecClient
\* C30, one step: the entry of with_client(c) makes c the current client;
\* the exit of a block, normal or by exception, closes the innermost open
\* block and makes the current client what it was before that block was
\* entered (none, so that get_client raises, if there was none).
C30_Step ==
    /\ Len(scopes') = Len(scopes) + 1 =>
           /\ client' = scopes'[Len(scopes')].client
           /\ get_datahub_client(client') =
                  [raised |-> FALSE, value |-> scopes'[Len(scopes')].client]
    /\ Len(scopes') = Len(scopes) - 1 =>
           /\ scopes' = SubSeq(scopes, 1, Len(scopes) - 1)
           /\ client' = scopes[Len(scopes)].before
           /\ scopes[Len(scopes)].before = Unset => get_datahub_client(client').raised

\* C30: with_client scopes the current client, and nested blocks restore it
\* last in, first out.
C30_Scoped == [][C30_Step]_vars

\* An inner block for another client has been left by an exception: the
\* client of the outer block, entered with none set, is current again.
C30_Witness ==
    /\ clientOutcome = [status |-> "exited", exception |-> TRUE]
    /\ Len(scopes) = 1
    /\ scopes[1].before = Unset
    /\ client = scopes[1].client
    /\ tokens = <<[old_value |-> Unset]>>

\* ------------------------------------------------ under FairConcurrent
Running(r) == pending[r].pc \notin {"idle", "done"}
Quiescent == \A r \in Requests : ~Running(r)
WholeEntry(entry, values) ==
    entry # None => /\ DOMAIN entry = {"value", "expires"}
                    /\ entry.value \in values
                    /\ entry.expires \in {t + VERSION_CHECK_CACHE_TTL_SECONDS : t \in 0..now}

\* The values a request holds come from probes for its own key, a request
\* that probed itself filters with what its probe returned, and its listing
\* is the registered tools filtered with these values.
C27_Request(r) ==
    LET q == pending[r]
    IN  /\ "has_documents" \in DOMAIN q => q.has_documents \in probed.documents
        /\ "info" \in DOMAIN q => q.info \in probed.version[q.client]
        /\ q.pc = "done" =>
               q.result = FilteredUnder(ShownIf(q.tools, q.has_documents), q.info)

\* An entry is absent or whole, with a value some probe for its key returned;
\* once the requests have run, a probed key has such an entry unless its
\* time to live has passed.
C27_Caches ==
    /\ WholeEntry(documentsCache, probed.documents)
    /\ \A e \in Endpoints : WholeEntry(versionCache[e], probed.version[e])
    /\ (Quiescent /\ now < DOCUMENT_CHECK_CACHE_TTL_SECONDS /\ probed.documents # {})
           => documentsCache # None
    /\ \A e \in Endpoints :
           (Quiescent /\ now < VERSION_CHECK_CACHE_TTL_SECONDS /\ probed.version[e] # {})
               => versionCache[e] # None

\* C27: with listing requests interleaved at the lookup, the probe and the
\* store of both caches, and backends that answer, every request that has
\* started completes; it filters with a value that a probe for its own key
\* returned (several requests may probe the same key); every entry it can
\* read is whole; and afterwards the cache holds a value one of the probes
\* returned.
C27_ConcurrentPopulate ==
    /\ [](C27_Caches /\ \A r \in Requests : C27_Request(r))
    /\ \A r \in Requests : Running(r) ~> (pending[r].pc = "done")

\* The entries an earlier listing for A left at time 0 have expired. Both
\* requests found the document entry expired and probed, the first for A,
\* which has no documents, and the second for B, which has; the first
\* stored last, so the entry holds its value. The first also found A's
\* version entry expired and probed the upgraded server. Both have their
\* listing.
C27_Witness ==
    /\ pending["first"].pc = "done" /\ pending["second"].pc = "done"
    /\ pending["first"].client = "A" /\ pending["second"].client = "B"
    /\ "probed_documents" \in DOMAIN pending["first"]
    /\ "probed_documents" \in DOMAIN pending["second"]
    /\ "probed_version" \in DOMAIN pending["first"]
    /\ ~pending["first"].has_documents /\ pending["second"].has_documents
    /\ probed.documents = BOOLEAN
    /\ Cardinality(probed.version["A"]) = 2
    /\ documentsCache # None /\ documentsCache.value = FALSE
    /\ documentsCache.expires >= 2 * DOCUMENT_CHECK_CACHE_TTL_SECONDS
    /\ Len(pending["first"].result) < Len(pending["second"].result)

====
